---- MODULE Spec2Model ----
(***************************************************************************)
(* libdtf: structural comparison of two parsed documents (JSON or YAML).   *)
(* Four checkers (key, type, value, array) walk a pair of root objects and *)
(* each collects its own list of diff records.                             *)
(*                                                                         *)
(* Text (keys, paths, rendered values) is a sequence of one-character      *)
(* strings, so that format_key, the "[i]" suffix and the renderings are    *)
(* real concatenations.  A document node is a record                       *)
(*   [kind, sc, items, fields]                                             *)
(* kind   : "null" | "bool" | "number" | "string" | "array" | "object"     *)
(* sc     : the scalar's text (number digits, true/false, string content)  *)
(* items  : the elements of an array                                       *)
(* fields : the entries [k, v] of an object, in iteration order, keys      *)
(*          unique and kept in ascending order (serde_json's BTreeMap)     *)
(***************************************************************************)
EXTENDS Integers, Sequences, FiniteSets

\* ------------------------------------------------------------------------
\* Bounds of the explored inputs
\* ------------------------------------------------------------------------
\* longest array of scalars explored
MaxLen == 3
\* longest array holding objects or arrays explored
MaxItems == 2

\* ------------------------------------------------------------------------
\* Text helpers
\* ------------------------------------------------------------------------
Range(s) == {s[i] : i \in 1..Len(s)}

DigitChar(d) == <<"0", "1", "2", "3", "4", "5", "6", "7", "8", "9">>[d + 1]

RECURSIVE Dec(_)
\* decimal text of a natural number, as `{}` formats a usize
Dec(n) == IF n < 10 THEN <<DigitChar(n)>> ELSE Dec(n \div 10) \o <<DigitChar(n % 10)>>

RECURSIVE Join(_, _)
\* the texts of ts separated by sep
Join(ts, sep) ==
    IF ts = <<>> THEN <<>>
    ELSE IF Len(ts) = 1 THEN ts[1]
    ELSE ts[1] \o sep \o Join(Tail(ts), sep)

RECURSIVE SetToSeq(_)
\* the elements of a finite set in some fixed order
SetToSeq(S) ==
    IF S = {} THEN <<>>
    ELSE LET x == CHOOSE x \in S : TRUE IN <<x>> \o SetToSeq(S \ {x})

\* number of entries of sequence s that equal x
CountIn(s, x) == Cardinality({i \in 1..Len(s) : s[i] = x})

\* ------------------------------------------------------------------------
\* Value model (serde_json::Value / serde_yaml::Value)
\* ------------------------------------------------------------------------
Null == [kind |-> "null", sc |-> <<>>, items |-> <<>>, fields |-> <<>>]
Bool(t) == [kind |-> "bool", sc |-> t, items |-> <<>>, fields |-> <<>>]
Num(n) == [kind |-> "number", sc |-> Dec(n), items |-> <<>>, fields |-> <<>>]
Str(t) == [kind |-> "string", sc |-> t, items |-> <<>>, fields |-> <<>>]
Arr(s) == [kind |-> "array", sc |-> <<>>, items |-> s, fields |-> <<>>]
Obj(f) == [kind |-> "object", sc |-> <<>>, items |-> <<>>, fields |-> f]

TrueText == <<"t", "r", "u", "e">>
NullText == <<"n", "u", "l", "l">>

is_object(v) == v.kind = "object"
is_array(v) == v.kind = "array"
is_string(v) == v.kind = "string"

\* Map::get : the index of key k in the entries m, 0 when absent
MapIndex(m, k) ==
    IF \E i \in 1..Len(m) : m[i].k = k
    THEN CHOOSE i \in 1..Len(m) : m[i].k = k
    ELSE 0

MapHas(m, k) == MapIndex(m, k) # 0
MapGet(m, k) == m[MapIndex(m, k)].v
MapKeys(m) == {m[i].k : i \in 1..Len(m)}

\* ------------------------------------------------------------------------
\* Path formatter
\* ------------------------------------------------------------------------
\* joins with '.' also under an empty prefix
format_key_always_dotted(key_in, current_key) == key_in \o <<".">> \o current_key

format_key(key_in, current_key) ==
    IF key_in = <<>> THEN current_key ELSE key_in \o <<".">> \o current_key

\* format!("{}[{}]", key_in, i) with a 0-based index i
index_key(key_in, i) == key_in \o <<"[">> \o Dec(i) \o <<"]">>

\* ------------------------------------------------------------------------
\* Rendering
\* ------------------------------------------------------------------------
RECURSIVE json_to_string(_)
\* serde_json's Display for Value: compact JSON text
json_to_string(v) ==
    CASE v.kind = "null" -> NullText
      [] v.kind = "bool" -> v.sc
      [] v.kind = "number" -> v.sc
      [] v.kind = "string" -> <<"\"">> \o v.sc \o <<"\"">>
      [] v.kind = "array" ->
            <<"[">> \o Join([i \in 1..Len(v.items) |-> json_to_string(v.items[i])], <<",">>)
                    \o <<"]">>
      [] v.kind = "object" ->
            <<"{">> \o Join([i \in 1..Len(v.fields) |->
                                <<"\"">> \o v.fields[i].k \o <<"\"", ":">>
                                    \o json_to_string(v.fields[i].v)], <<",">>)
                    \o <<"}">>

\* renders every value, strings included, through to_string
json_render_quoted(v) == json_to_string(v)

\* a.as_str().map_or_else(|| a.to_string(), |v| v.to_owned())
json_render(v) == IF is_string(v) THEN v.sc ELSE json_to_string(v)

\* Stringable for serde_yaml::Value
yaml_to_string(v) ==
    CASE v.kind = "null" -> NullText
      [] v.kind = "bool" -> v.sc
      [] v.kind = "number" -> v.sc
      [] v.kind = "string" -> v.sc
      [] v.kind = "array" -> <<"a", "r", "r", "a", "y">>
      [] v.kind = "object" -> <<"m", "a", "p", "p", "i", "n", "g">>

\* ValueType's Display of get_type(value)
get_type(v) == v.kind

\* ------------------------------------------------------------------------
\* Diff records
\* ------------------------------------------------------------------------
KeyDiff(key, has, misses) == [key |-> key, has |-> has, misses |-> misses]
TypeDiff(key, type1, type2) == [key |-> key, type1 |-> type1, type2 |-> type2]
ValueDiff(key, value1, value2) == [key |-> key, value1 |-> value1, value2 |-> value2]
ArrayDiff(key, descriptor, value) == [key |-> key, descriptor |-> descriptor, value |-> value]

\* WorkingContext::new(WorkingFile::new(fa), WorkingFile::new(fb), Config::new(same_order))
WorkingContext(fa, fb, same_order) ==
    [file_a |-> [name |-> fa], file_b |-> [name |-> fb],
     config |-> [array_same_order |-> same_order]]

\* ------------------------------------------------------------------------
\* JSON key checker (key_checker.rs)
\* ------------------------------------------------------------------------
\* B's keys collected without the prefix of the object being checked
json_get_b_keys_unprefixed(key, b) == {b[i].k : i \in 1..Len(b)}

json_get_b_keys(key, b) == {format_key(key, b[i].k) : i \in 1..Len(b)}

\* the remainder attributed to the wrong file
json_check_b_mislabelled(b_keys, ctx) ==
    LET left == SetToSeq(b_keys)
    IN [i \in 1..Len(left) |-> KeyDiff(left[i], ctx.file_a.name, ctx.file_b.name)]

\* The records for the paths left in b_keys.  The source iterates a HashSet,
\* whose order is unspecified: SetToSeq fixes one order.
json_check_b(b_keys, ctx) ==
    LET left == SetToSeq(b_keys)
    IN [i \in 1..Len(left) |-> KeyDiff(left[i], ctx.file_b.name, ctx.file_a.name)]

RECURSIVE json_key_check(_, _, _, _)
RECURSIVE json_find_key_diffs_in_values(_, _, _, _)
RECURSIVE json_find_key_diffs_in_arrays(_, _, _, _, _)
RECURSIVE json_check_a(_, _, _, _, _, _, _)

\* a fresh CheckingData::new(key_in, a, b, ctx), check(), and its diffs
json_find_key_diffs_in_objects(key_in, a, b, ctx) ==
    json_key_check(key_in, a.fields, b.fields, ctx)

\* looks at the first pair of elements only
json_find_key_diffs_in_arrays_firstonly(key_in, a, b, ctx, i) ==
    IF i > Len(a.items) \/ i > 1 THEN <<>>
    ELSE json_find_key_diffs_in_values(index_key(key_in, i - 1), a.items[i], b.items[i], ctx)

\* the for_each over a's elements, from 1-based position i on
json_find_key_diffs_in_arrays(key_in, a, b, ctx, i) ==
    IF i > Len(a.items) THEN <<>>
    ELSE json_find_key_diffs_in_values(index_key(key_in, i - 1), a.items[i], b.items[i], ctx)
            \o json_find_key_diffs_in_arrays(key_in, a, b, ctx, i + 1)

\* descends into arrays of equal length whatever the mode
json_find_key_diffs_in_values_anymode(key_in, a, b, ctx) ==
    (IF is_object(a) /\ is_object(b)
     THEN json_find_key_diffs_in_objects(key_in, a, b, ctx) ELSE <<>>)
    \o
    (IF is_array(a) /\ is_array(b) /\ Len(a.items) = Len(b.items)
     THEN json_find_key_diffs_in_arrays(key_in, a, b, ctx, 1) ELSE <<>>)

json_find_key_diffs_in_values(key_in, a, b, ctx) ==
    (IF is_object(a) /\ is_object(b)
     THEN json_find_key_diffs_in_objects(key_in, a, b, ctx) ELSE <<>>)
    \o
    (IF ctx.config.array_same_order /\ is_array(a) /\ is_array(b)
            /\ Len(a.items) = Len(b.items)
     THEN json_find_key_diffs_in_arrays(key_in, a, b, ctx, 1) ELSE <<>>)

\* the loop of check_a from entry i of a on; yields the diffs and what is left of b_keys
json_check_a(key, a, b, ctx, i, b_keys, diffs) ==
    IF i > Len(a) THEN [diffs |-> diffs, b_keys |-> b_keys]
    ELSE LET a_key == a[i].k
             k == format_key(key, a_key)
         IN IF MapHas(b, a_key)
            THEN json_check_a(key, a, b, ctx, i + 1, b_keys \ {k},
                    diffs \o json_find_key_diffs_in_values(k, a[i].v, MapGet(b, a_key), ctx))
            ELSE json_check_a(key, a, b, ctx, i + 1, b_keys,
                    Append(diffs, KeyDiff(k, ctx.file_a.name, ctx.file_b.name)))

\* Checker<KeyDiff>::check on a CheckingData with empty diffs: the diffs it collects
json_key_check(key, a, b, ctx) ==
    LET r == json_check_a(key, a, b, ctx, 1, json_get_b_keys(key, b), <<>>)
    IN r.diffs \o json_check_b(r.b_keys, ctx)

\* ------------------------------------------------------------------------
\* JSON type checker (type_checker.rs)
\* ------------------------------------------------------------------------
RECURSIVE json_type_check(_, _, _, _)
RECURSIVE json_type_check_from(_, _, _, _, _)
RECURSIVE json_find_type_diffs_in_values(_, _, _, _)
RECURSIVE json_find_type_diffs_in_arrays(_, _, _, _, _)

json_find_type_diffs_in_objects(key_in, a, b, ctx) ==
    json_type_check(key_in, a.fields, b.fields, ctx)

RECURSIVE json_find_type_diffs_in_arrays_onebased(_, _, _, _, _)
\* the element paths numbered from 1
json_find_type_diffs_in_arrays_onebased(key_in, a, b, ctx, i) ==
    IF i > Len(a.items) THEN <<>>
    ELSE json_find_type_diffs_in_values(index_key(key_in, i), a.items[i], b.items[i], ctx)
            \o json_find_type_diffs_in_arrays_onebased(key_in, a, b, ctx, i + 1)

json_find_type_diffs_in_arrays(key_in, a, b, ctx, i) ==
    IF i > Len(a.items) THEN <<>>
    ELSE json_find_type_diffs_in_values(index_key(key_in, i - 1), a.items[i], b.items[i], ctx)
            \o json_find_type_diffs_in_arrays(key_in, a, b, ctx, i + 1)

\* reports a type diff for every pair of unequal values
json_find_type_diffs_in_values_byvalue(key_in, a, b, ctx) ==
    (IF is_object(a) /\ is_object(b)
     THEN json_find_type_diffs_in_objects(key_in, a, b, ctx) ELSE <<>>)
    \o
    (IF ctx.config.array_same_order /\ is_array(a) /\ is_array(b)
            /\ Len(a.items) = Len(b.items)
     THEN json_find_type_diffs_in_arrays(key_in, a, b, ctx, 1) ELSE <<>>)
    \o
    (IF a # b
     THEN <<TypeDiff(key_in, get_type(a), get_type(b))>> ELSE <<>>)

json_find_type_diffs_in_values(key_in, a, b, ctx) ==
    (IF is_object(a) /\ is_object(b)
     THEN json_find_type_diffs_in_objects(key_in, a, b, ctx) ELSE <<>>)
    \o
    (IF ctx.config.array_same_order /\ is_array(a) /\ is_array(b)
            /\ Len(a.items) = Len(b.items)
     THEN json_find_type_diffs_in_arrays(key_in, a, b, ctx, 1) ELSE <<>>)
    \o
    (IF get_type(a) # get_type(b)
     THEN <<TypeDiff(key_in, get_type(a), get_type(b))>> ELSE <<>>)

\* compares a key that b lacks against null
json_type_check_from_unmatched(key, a, b, ctx, i) ==
    IF i > Len(a) THEN <<>>
    ELSE json_find_type_diffs_in_values(format_key(key, a[i].k), a[i].v,
                                        IF MapHas(b, a[i].k) THEN MapGet(b, a[i].k)
                                        ELSE Null, ctx)
         \o json_type_check_from(key, a, b, ctx, i + 1)

\* the loop of Checker<TypeDiff>::check from entry i of a on
json_type_check_from(key, a, b, ctx, i) ==
    IF i > Len(a) THEN <<>>
    ELSE (IF MapHas(b, a[i].k)
          THEN json_find_type_diffs_in_values(format_key(key, a[i].k), a[i].v,
                                              MapGet(b, a[i].k), ctx)
          ELSE <<>>)
         \o json_type_check_from(key, a, b, ctx, i + 1)

\* Checker<TypeDiff>::check on a CheckingData with empty diffs
json_type_check(key, a, b, ctx) == json_type_check_from(key, a, b, ctx, 1)

\* ------------------------------------------------------------------------
\* JSON value checker (value_checker.rs)
\* ------------------------------------------------------------------------
RECURSIVE json_value_check(_, _, _, _)
RECURSIVE json_value_check_from(_, _, _, _, _)
RECURSIVE json_find_value_diffs_in_values(_, _, _, _)
RECURSIVE json_find_value_diffs_in_arrays(_, _, _, _, _)

\* builds the nested CheckingData from b on both sides
json_find_value_diffs_in_objects_selfcompare(key_in, a, b, ctx) ==
    json_value_check(key_in, b.fields, b.fields, ctx)

json_find_value_diffs_in_objects(key_in, a, b, ctx) ==
    json_value_check(key_in, a.fields, b.fields, ctx)

\* reports the paired elements under the array's own key
json_find_value_diffs_in_arrays_unindexed(key_in, a, b, ctx, i) ==
    IF i > Len(a.items) THEN <<>>
    ELSE json_find_value_diffs_in_values(key_in, a.items[i], b.items[i], ctx)
            \o json_find_value_diffs_in_arrays(key_in, a, b, ctx, i + 1)

json_find_value_diffs_in_arrays(key_in, a, b, ctx, i) ==
    IF i > Len(a.items) THEN <<>>
    ELSE json_find_value_diffs_in_values(index_key(key_in, i - 1), a.items[i], b.items[i], ctx)
            \o json_find_value_diffs_in_arrays(key_in, a, b, ctx, i + 1)

\* compares leaves only when they are of the same kind
json_find_value_diffs_in_values_samekind(key_in, a, b, ctx) ==
    IF is_object(a) /\ is_object(b)
    THEN json_find_value_diffs_in_objects(key_in, a, b, ctx)
    ELSE IF ctx.config.array_same_order /\ is_array(a) /\ is_array(b)
                /\ Len(a.items) = Len(b.items)
    THEN json_find_value_diffs_in_arrays(key_in, a, b, ctx, 1)
    ELSE IF a # b /\ a.kind = b.kind
    THEN <<ValueDiff(key_in, json_render(a), json_render(b))>>
    ELSE <<>>

json_find_value_diffs_in_values(key_in, a, b, ctx) ==
    IF is_object(a) /\ is_object(b)
    THEN json_find_value_diffs_in_objects(key_in, a, b, ctx)
    ELSE IF ctx.config.array_same_order /\ is_array(a) /\ is_array(b)
                /\ Len(a.items) = Len(b.items)
    THEN json_find_value_diffs_in_arrays(key_in, a, b, ctx, 1)
    ELSE IF a # b
    THEN <<ValueDiff(key_in, json_render(a), json_render(b))>>
    ELSE <<>>

\* compares a key that b lacks against null
json_value_check_from_unmatched(key, a, b, ctx, i) ==
    IF i > Len(a) THEN <<>>
    ELSE json_find_value_diffs_in_values(format_key(key, a[i].k), a[i].v,
                                         IF MapHas(b, a[i].k) THEN MapGet(b, a[i].k)
                                         ELSE Null, ctx)
         \o json_value_check_from(key, a, b, ctx, i + 1)

\* the loop of Checker<ValueDiff>::check from entry i of a on
json_value_check_from(key, a, b, ctx, i) ==
    IF i > Len(a) THEN <<>>
    ELSE (IF MapHas(b, a[i].k)
          THEN json_find_value_diffs_in_values(format_key(key, a[i].k), a[i].v,
                                               MapGet(b, a[i].k), ctx)
          ELSE <<>>)
         \o json_value_check_from(key, a, b, ctx, i + 1)

\* Checker<ValueDiff>::check on a CheckingData with empty diffs
json_value_check(key, a, b, ctx) == json_value_check_from(key, a, b, ctx, 1)

\* ------------------------------------------------------------------------
\* JSON array checker (array_checker.rs)
\* ------------------------------------------------------------------------
\* a.iter().filter(|&x| !b.contains(x))
NotContained(a, b) == SelectSeq(a, LAMBDA x : \A j \in 1..Len(b) : b[j] # x)

\* b_misses filled from the wrong side
json_fill_diff_vectors_skewed(a, b) ==
    [a_has |-> NotContained(a, b), b_has |-> NotContained(b, a),
     a_misses |-> NotContained(b, a), b_misses |-> NotContained(b, a)]

json_fill_diff_vectors(a, b) ==
    [a_has |-> NotContained(a, b), b_has |-> NotContained(b, a),
     a_misses |-> NotContained(b, a), b_misses |-> NotContained(a, b)]

\* the chained iterator over the four vectors, mapped to ArrayDiff records
json_array_diff_iter(key_in, v) ==
    [i \in 1..Len(v.a_has) |-> ArrayDiff(key_in, "AHas", json_render(v.a_has[i]))]
    \o [i \in 1..Len(v.a_misses) |-> ArrayDiff(key_in, "AMisses", json_render(v.a_misses[i]))]
    \o [i \in 1..Len(v.b_has) |-> ArrayDiff(key_in, "BHas", json_render(v.b_has[i]))]
    \o [i \in 1..Len(v.b_misses) |-> ArrayDiff(key_in, "BMisses", json_render(v.b_misses[i]))]

RECURSIVE json_array_check(_, _, _, _)
RECURSIVE json_array_check_from(_, _, _, _, _)
RECURSIVE json_find_array_diffs_in_values(_, _, _, _)

\* starts the nested check without the path of the two objects
json_find_array_diffs_in_objects_unprefixed(key_in, a, b, ctx) ==
    json_array_check(<<>>, a.fields, b.fields, ctx)

json_find_array_diffs_in_objects(key_in, a, b, ctx) ==
    json_array_check(key_in, a.fields, b.fields, ctx)

json_find_array_diffs_in_values(key_in, a, b, ctx) ==
    (IF is_object(a) /\ is_object(b)
     THEN json_find_array_diffs_in_objects(key_in, a, b, ctx) ELSE <<>>)
    \o
    (IF is_array(a) /\ is_array(b)
     THEN json_array_diff_iter(key_in, json_fill_diff_vectors(a.items, b.items)) ELSE <<>>)

\* the loop of Checker<ArrayDiff>::check from entry i of a on
json_array_check_from(key, a, b, ctx, i) ==
    IF i > Len(a) THEN <<>>
    ELSE (IF MapHas(b, a[i].k)
          THEN json_find_array_diffs_in_values(format_key(key, a[i].k), a[i].v,
                                               MapGet(b, a[i].k), ctx)
          ELSE <<>>)
         \o json_array_check_from(key, a, b, ctx, i + 1)

\* check() without the early return of ordered mode
json_array_check_unguarded(key, a, b, ctx) == json_array_check_from(key, a, b, ctx, 1)

\* Checker<ArrayDiff>::check: nothing in ordered mode
json_array_check(key, a, b, ctx) ==
    IF ctx.config.array_same_order THEN <<>> ELSE json_array_check_from(key, a, b, ctx, 1)

\* ------------------------------------------------------------------------
\* YAML checkers (yaml/*.rs).  A run of a YAML checker yields
\* [panicked, diffs]: whether an unwrap() on None aborted it, and the diffs
\* held by the CheckingData when it returned or aborted.
\* ------------------------------------------------------------------------
Done(diffs) == [panicked |-> FALSE, diffs |-> diffs]
Panic(diffs) == [panicked |-> TRUE, diffs |-> diffs]

yaml_get_b_keys(key, b) == {format_key(key, b[i].k) : i \in 1..Len(b)}

\* as json_check_b: the HashSet's paths in one fixed order
yaml_check_b(b_keys, ctx) ==
    LET left == SetToSeq(b_keys)
    IN [i \in 1..Len(left) |-> KeyDiff(left[i], ctx.file_b.name, ctx.file_a.name)]

RECURSIVE yaml_key_check(_, _, _, _)
RECURSIVE yaml_find_key_diffs_in_values(_, _, _, _)
RECURSIVE yaml_check_a(_, _, _, _, _, _, _)

\* the nested checker's diffs are concatenated only when its check() returns
yaml_find_key_diffs_in_objects(key_in, a, b, ctx) ==
    LET r == yaml_key_check(key_in, a.fields, b.fields, ctx)
    IN IF r.panicked THEN Panic(<<>>) ELSE r

\* a.as_mapping().unwrap() on a value that is a sequence: as_mapping() is None
yaml_find_key_diffs_in_arrays(key_in, a, b, ctx) ==
    IF is_array(a) THEN Panic(<<>>) ELSE Done(<<>>)

yaml_find_key_diffs_in_values(key_in, a, b, ctx) ==
    LET objs == IF is_object(a) /\ is_object(b)
                THEN yaml_find_key_diffs_in_objects(key_in, a, b, ctx) ELSE Done(<<>>)
    IN IF objs.panicked THEN objs
       ELSE IF ctx.config.array_same_order /\ is_array(a) /\ is_array(b)
                    /\ Len(a.items) = Len(b.items)
       THEN LET arrs == yaml_find_key_diffs_in_arrays(key_in, a, b, ctx)
            IN IF arrs.panicked THEN Panic(objs.diffs) ELSE Done(objs.diffs \o arrs.diffs)
       ELSE objs

yaml_check_a(key, a, b, ctx, i, b_keys, diffs) ==
    IF i > Len(a) THEN [panicked |-> FALSE, diffs |-> diffs, b_keys |-> b_keys]
    ELSE LET a_key == a[i].k
             k == format_key(key, a_key)
         IN IF MapHas(b, a_key)
            THEN LET r == yaml_find_key_diffs_in_values(k, a[i].v, MapGet(b, a_key), ctx)
                 IN IF r.panicked
                    THEN [panicked |-> TRUE, diffs |-> diffs \o r.diffs,
                          b_keys |-> b_keys \ {k}]
                    ELSE yaml_check_a(key, a, b, ctx, i + 1, b_keys \ {k},
                                      diffs \o r.diffs)
            ELSE yaml_check_a(key, a, b, ctx, i + 1, b_keys,
                    Append(diffs, KeyDiff(k, ctx.file_a.name, ctx.file_b.name)))

yaml_key_check(key, a, b, ctx) ==
    LET r == yaml_check_a(key, a, b, ctx, 1, yaml_get_b_keys(key, b), <<>>)
    IN IF r.panicked THEN Panic(r.diffs)
       ELSE Done(r.diffs \o yaml_check_b(r.b_keys, ctx))

\* yaml/type_checker.rs
RECURSIVE yaml_type_check(_, _, _, _)
RECURSIVE yaml_type_check_from(_, _, _, _, _)
RECURSIVE yaml_find_type_diffs_in_values(_, _, _, _)
RECURSIVE yaml_find_type_diffs_in_arrays(_, _, _, _, _)

yaml_find_type_diffs_in_objects(key_in, a, b, ctx) ==
    yaml_type_check(key_in, a.fields, b.fields, ctx)

yaml_find_type_diffs_in_arrays(key_in, a, b, ctx, i) ==
    IF i > Len(a.items) THEN <<>>
    ELSE yaml_find_type_diffs_in_values(index_key(key_in, i - 1), a.items[i], b.items[i], ctx)
            \o yaml_find_type_diffs_in_arrays(key_in, a, b, ctx, i + 1)

yaml_find_type_diffs_in_values(key_in, a, b, ctx) ==
    (IF is_object(a) /\ is_object(b)
     THEN yaml_find_type_diffs_in_objects(key_in, a, b, ctx) ELSE <<>>)
    \o
    (IF ctx.config.array_same_order /\ is_array(a) /\ is_array(b)
            /\ Len(a.items) = Len(b.items)
     THEN yaml_find_type_diffs_in_arrays(key_in, a, b, ctx, 1) ELSE <<>>)
    \o
    (IF get_type(a) # get_type(b)
     THEN <<TypeDiff(key_in, get_type(a), get_type(b))>> ELSE <<>>)

yaml_type_check_from(key, a, b, ctx, i) ==
    IF i > Len(a) THEN <<>>
    ELSE (IF MapHas(b, a[i].k)
          THEN yaml_find_type_diffs_in_values(format_key(key, a[i].k), a[i].v,
                                              MapGet(b, a[i].k), ctx)
          ELSE <<>>)
         \o yaml_type_check_from(key, a, b, ctx, i + 1)

yaml_type_check(key, a, b, ctx) == yaml_type_check_from(key, a, b, ctx, 1)

\* yaml/value_checker.rs
ArrayDifferencesPresent ==
    <<"A", "r", "r", "a", "y", " ", "d", "i", "f", "f", "e", "r", "e", "n", "c", "e", "s",
      " ", "p", "r", "e", "s", "e", "n", "t">>

\* a.as_str().map_or_else(|| a.to_string(), |v| v.to_owned()) with Stringable::to_string
yaml_render(v) == IF is_string(v) THEN v.sc ELSE yaml_to_string(v)

RECURSIVE yaml_value_check(_, _, _, _)
RECURSIVE yaml_value_check_from(_, _, _, _, _)
RECURSIVE yaml_find_value_diffs_in_values(_, _, _, _)
RECURSIVE yaml_find_value_diffs_in_arrays(_, _, _, _, _)

yaml_find_value_diffs_in_objects(key_in, a, b, ctx) ==
    yaml_value_check(key_in, a.fields, b.fields, ctx)

yaml_find_value_diffs_in_arrays(key_in, a, b, ctx, i) ==
    IF i > Len(a.items) THEN <<>>
    ELSE yaml_find_value_diffs_in_values(index_key(key_in, i - 1), a.items[i], b.items[i], ctx)
            \o yaml_find_value_diffs_in_arrays(key_in, a, b, ctx, i + 1)

\* renders two unequal sequences like any other pair
yaml_find_value_diffs_in_values_rendered(key_in, a, b, ctx) ==
    IF is_object(a) /\ is_object(b)
    THEN yaml_find_value_diffs_in_objects(key_in, a, b, ctx)
    ELSE IF ctx.config.array_same_order /\ is_array(a) /\ is_array(b)
                /\ Len(a.items) = Len(b.items)
    THEN yaml_find_value_diffs_in_arrays(key_in, a, b, ctx, 1)
    ELSE IF a # b
    THEN <<ValueDiff(key_in, yaml_render(a), yaml_render(b))>>
    ELSE <<>>

yaml_find_value_diffs_in_values(key_in, a, b, ctx) ==
    IF is_object(a) /\ is_object(b)
    THEN yaml_find_value_diffs_in_objects(key_in, a, b, ctx)
    ELSE IF ctx.config.array_same_order /\ is_array(a) /\ is_array(b)
                /\ Len(a.items) = Len(b.items)
    THEN yaml_find_value_diffs_in_arrays(key_in, a, b, ctx, 1)
    ELSE IF a # b /\ ~is_array(a) /\ ~is_array(b)
    THEN <<ValueDiff(key_in, yaml_render(a), yaml_render(b))>>
    ELSE IF a # b /\ is_array(a) /\ is_array(b)
    THEN <<ValueDiff(key_in, ArrayDifferencesPresent, ArrayDifferencesPresent)>>
    ELSE <<>>

yaml_value_check_from(key, a, b, ctx, i) ==
    IF i > Len(a) THEN <<>>
    ELSE (IF MapHas(b, a[i].k)
          THEN yaml_find_value_diffs_in_values(format_key(key, a[i].k), a[i].v,
                                               MapGet(b, a[i].k), ctx)
          ELSE <<>>)
         \o yaml_value_check_from(key, a, b, ctx, i + 1)

yaml_value_check(key, a, b, ctx) == yaml_value_check_from(key, a, b, ctx, 1)

\* yaml/array_checker.rs
\* A HashMap<String, i32> is a sequence of entries [k, n] with unique keys; its
\* iteration order, unspecified in the source, is the order of first insertion.
RECURSIVE yaml_count_items(_)
yaml_count_items(items) ==
    IF items = <<>> THEN <<>>
    ELSE LET front == yaml_count_items(SubSeq(items, 1, Len(items) - 1))
             t == yaml_to_string(items[Len(items)])
             at == MapIndex(front, t)
         IN IF at = 0 THEN Append(front, [k |-> t, n |-> 1])
            ELSE [front EXCEPT ![at].n = @ + 1]

\* ocurrence_counts.get(key).copied().unwrap_or(0)
CountOf(counts, t) ==
    IF MapHas(counts, t) THEN counts[MapIndex(counts, t)].n ELSE 0

\* for _ in 0..diff { push(x) }
Repeat(x, diff) == [i \in 1..diff |-> x]

RECURSIVE yaml_calculate_difference_from(_, _, _)
yaml_calculate_difference_from(ocurrence_counts_a, ocurrence_counts_b, i) ==
    IF i > Len(ocurrence_counts_a) THEN <<>>
    ELSE LET e == ocurrence_counts_a[i]
             diff == e.n - CountOf(ocurrence_counts_b, e.k)
         IN Repeat(Str(e.k), diff)
            \o yaml_calculate_difference_from(ocurrence_counts_a, ocurrence_counts_b, i + 1)

\* a set difference in place of the multiset one: each surplus value once
yaml_calculate_difference_once(ocurrence_counts_a, ocurrence_counts_b) ==
    LET surplus == SelectSeq(ocurrence_counts_a,
                             LAMBDA e : e.n - CountOf(ocurrence_counts_b, e.k) > 0)
    IN [i \in 1..Len(surplus) |-> Str(surplus[i].k)]

yaml_calculate_difference(ocurrence_counts_a, ocurrence_counts_b) ==
    yaml_calculate_difference_from(ocurrence_counts_a, ocurrence_counts_b, 1)

yaml_count_occurrences(a, b) ==
    LET ocurrence_counts_a == yaml_count_items(a)
        ocurrence_counts_b == yaml_count_items(b)
        a_has == yaml_calculate_difference(ocurrence_counts_a, ocurrence_counts_b)
        b_has == yaml_calculate_difference(ocurrence_counts_b, ocurrence_counts_a)
    IN [a_has |-> a_has, a_misses |-> b_has, b_has |-> b_has, b_misses |-> a_has]

\* every collected value is a Value::String, so value.as_str() is its content
yaml_array_diff_iter(key_in, v) ==
    [i \in 1..Len(v.a_has) |-> ArrayDiff(key_in, "AHas", v.a_has[i].sc)]
    \o [i \in 1..Len(v.a_misses) |-> ArrayDiff(key_in, "AMisses", v.a_misses[i].sc)]
    \o [i \in 1..Len(v.b_has) |-> ArrayDiff(key_in, "BHas", v.b_has[i].sc)]
    \o [i \in 1..Len(v.b_misses) |-> ArrayDiff(key_in, "BMisses", v.b_misses[i].sc)]

RECURSIVE yaml_array_check(_, _, _, _)
RECURSIVE yaml_array_check_from(_, _, _, _, _)
RECURSIVE yaml_find_array_diffs_in_values(_, _, _, _)

yaml_find_array_diffs_in_objects(key_in, a, b, ctx) ==
    yaml_array_check(key_in, a.fields, b.fields, ctx)

yaml_find_array_diffs_in_values(key_in, a, b, ctx) ==
    (IF is_object(a) /\ is_object(b)
     THEN yaml_find_array_diffs_in_objects(key_in, a, b, ctx) ELSE <<>>)
    \o
    (IF is_array(a) /\ is_array(b)
     THEN yaml_array_diff_iter(key_in, yaml_count_occurrences(a.items, b.items)) ELSE <<>>)

yaml_array_check_from(key, a, b, ctx, i) ==
    IF i > Len(a) THEN <<>>
    ELSE (IF MapHas(b, a[i].k)
          THEN yaml_find_array_diffs_in_values(format_key(key, a[i].k), a[i].v,
                                               MapGet(b, a[i].k), ctx)
          ELSE <<>>)
         \o yaml_array_check_from(key, a, b, ctx, i + 1)

\* Checker<ArrayDiff>::check: the loop runs only in unordered mode
yaml_array_check(key, a, b, ctx) ==
    IF ~ctx.config.array_same_order THEN yaml_array_check_from(key, a, b, ctx, 1) ELSE <<>>

\* ------------------------------------------------------------------------
\* The crate-root functions (lib.rs)
\* ------------------------------------------------------------------------
\* find_diff_in_values: objs is what run_if_objects() returns, arrs the
\* flat_map of run_if_arrays over a's elements; each is used only under its guard
lib_find_diff_in_values(a, b, ctx, objs, arrs) ==
    (IF is_object(a) /\ is_object(b) THEN objs ELSE <<>>)
    \o
    (IF ctx.config.array_same_order /\ is_array(a) /\ is_array(b)
            /\ Len(a.items) = Len(b.items)
     THEN arrs ELSE <<>>)

RECURSIVE lib_find_key_diffs(_, _, _, _)
RECURSIVE lib_find_key_diffs_in_values(_, _, _, _)
RECURSIVE lib_key_diffs_in_items(_, _, _, _, _)
RECURSIVE lib_find_key_diffs_from(_, _, _, _, _, _, _)

\* the flat_map of find_key_diffs_in_values over a's elements from position i on
lib_key_diffs_in_items(key_in, a, b, ctx, i) ==
    IF i > Len(a.items) THEN <<>>
    ELSE lib_find_key_diffs_in_values(index_key(key_in, i - 1), a.items[i], b.items[i], ctx)
            \o lib_key_diffs_in_items(key_in, a, b, ctx, i + 1)

lib_find_key_diffs_in_values(key_in, a, b, ctx) ==
    lib_find_diff_in_values(a, b, ctx,
        lib_find_key_diffs(key_in, a.fields, b.fields, ctx),
        lib_key_diffs_in_items(key_in, a, b, ctx, 1))

\* the loop of find_key_diffs over a's entries from i on
lib_find_key_diffs_from(key_in, a, b, ctx, i, b_keys, key_diff) ==
    IF i > Len(a) THEN [diffs |-> key_diff, b_keys |-> b_keys]
    ELSE LET a_key == a[i].k
             k == format_key(key_in, a_key)
         IN IF MapHas(b, a_key)
            THEN lib_find_key_diffs_from(key_in, a, b, ctx, i + 1, b_keys \ {k},
                    key_diff \o lib_find_key_diffs_in_values(k, a[i].v, MapGet(b, a_key), ctx))
            ELSE lib_find_key_diffs_from(key_in, a, b, ctx, i + 1, b_keys,
                    Append(key_diff, KeyDiff(k, ctx.file_a.name, ctx.file_b.name)))

lib_find_key_diffs(key_in, a, b, ctx) ==
    LET r == lib_find_key_diffs_from(key_in, a, b, ctx, 1,
                                     {format_key(key_in, b[i].k) : i \in 1..Len(b)}, <<>>)
        left == SetToSeq(r.b_keys)
    IN r.diffs \o [i \in 1..Len(left) |-> KeyDiff(left[i], ctx.file_b.name, ctx.file_a.name)]

RECURSIVE lib_find_type_diffs(_, _, _, _)
RECURSIVE lib_find_type_diffs_from(_, _, _, _, _)
RECURSIVE lib_find_type_diffs_in_values(_, _, _, _)
RECURSIVE lib_type_diffs_in_items(_, _, _, _, _)

lib_type_diffs_in_items(key_in, a, b, ctx, i) ==
    IF i > Len(a.items) THEN <<>>
    ELSE lib_find_type_diffs_in_values(index_key(key_in, i - 1), a.items[i], b.items[i], ctx)
            \o lib_type_diffs_in_items(key_in, a, b, ctx, i + 1)

lib_find_type_diffs_in_values(key_in, a, b, ctx) ==
    lib_find_diff_in_values(a, b, ctx,
        lib_find_type_diffs(key_in, a.fields, b.fields, ctx),
        lib_type_diffs_in_items(key_in, a, b, ctx, 1))
    \o
    (IF get_type(a) # get_type(b)
     THEN <<TypeDiff(key_in, get_type(a), get_type(b))>> ELSE <<>>)

lib_find_type_diffs_from(key_in, a, b, ctx, i) ==
    IF i > Len(a) THEN <<>>
    ELSE (IF MapHas(b, a[i].k)
          THEN lib_find_type_diffs_in_values(format_key(key_in, a[i].k), a[i].v,
                                             MapGet(b, a[i].k), ctx)
          ELSE <<>>)
         \o lib_find_type_diffs_from(key_in, a, b, ctx, i + 1)

lib_find_type_diffs(key_in, a, b, ctx) == lib_find_type_diffs_from(key_in, a, b, ctx, 1)

RECURSIVE lib_find_value_diffs(_, _, _, _)
RECURSIVE lib_find_value_diffs_from(_, _, _, _, _)
RECURSIVE lib_find_value_diffs_in_values(_, _, _, _)
RECURSIVE lib_value_diffs_in_items(_, _, _, _, _)

lib_value_diffs_in_items(key_in, a, b, ctx, i) ==
    IF i > Len(a.items) THEN <<>>
    ELSE lib_find_value_diffs_in_values(index_key(key_in, i - 1), a.items[i], b.items[i], ctx)
            \o lib_value_diffs_in_items(key_in, a, b, ctx, i + 1)

\* pairs the elements of equal-length arrays whatever the mode
lib_find_value_diffs_in_values_anymode(key_in, a, b, ctx) ==
    IF is_object(a) /\ is_object(b)
    THEN lib_find_value_diffs(key_in, a.fields, b.fields, ctx)
    ELSE IF is_array(a) /\ is_array(b) /\ Len(a.items) = Len(b.items)
    THEN lib_value_diffs_in_items(key_in, a, b, ctx, 1)
    ELSE IF a # b
    THEN <<ValueDiff(key_in, json_render(a), json_render(b))>>
    ELSE <<>>

lib_find_value_diffs_in_values(key_in, a, b, ctx) ==
    IF is_object(a) /\ is_object(b)
    THEN lib_find_value_diffs(key_in, a.fields, b.fields, ctx)
    ELSE IF ctx.config.array_same_order /\ is_array(a) /\ is_array(b)
                /\ Len(a.items) = Len(b.items)
    THEN lib_value_diffs_in_items(key_in, a, b, ctx, 1)
    ELSE IF a # b
    THEN <<ValueDiff(key_in, json_render(a), json_render(b))>>
    ELSE <<>>

lib_find_value_diffs_from(key_in, a, b, ctx, i) ==
    IF i > Len(a) THEN <<>>
    ELSE (IF MapHas(b, a[i].k)
          THEN lib_find_value_diffs_in_values(format_key(key_in, a[i].k), a[i].v,
                                              MapGet(b, a[i].k), ctx)
          ELSE <<>>)
         \o lib_find_value_diffs_from(key_in, a, b, ctx, i + 1)

lib_find_value_diffs(key_in, a, b, ctx) == lib_find_value_diffs_from(key_in, a, b, ctx, 1)

\* compares the two arrays position by position
lib_fill_diff_vectors_positional(a, b) ==
    LET Unpaired(x, y) ==
            LET idx == SetToSeq({i \in 1..Len(x) : i > Len(y) \/ y[i] # x[i]})
            IN [n \in 1..Len(idx) |-> x[idx[n]]]
    IN [a_has |-> Unpaired(a, b), b_has |-> Unpaired(b, a),
        a_misses |-> Unpaired(b, a), b_misses |-> Unpaired(a, b)]

lib_fill_diff_vectors(a, b) ==
    [a_has |-> NotContained(a, b), b_has |-> NotContained(b, a),
     a_misses |-> NotContained(b, a), b_misses |-> NotContained(a, b)]

RECURSIVE lib_find_array_diffs(_, _, _, _)
RECURSIVE lib_find_array_diffs_from(_, _, _, _, _)
RECURSIVE lib_find_array_diffs_in_values(_, _, _, _)

\* run_if_arrays is |_, _| Vec::new()
lib_find_array_diffs_in_values(key_in, a, b, ctx) ==
    lib_find_diff_in_values(a, b, ctx,
        lib_find_array_diffs(key_in, a.fields, b.fields, ctx), <<>>)
    \o
    (IF is_array(a) /\ is_array(b)
     THEN json_array_diff_iter(key_in, lib_fill_diff_vectors(a.items, b.items)) ELSE <<>>)

lib_find_array_diffs_from(key_in, a, b, ctx, i) ==
    IF i > Len(a) THEN <<>>
    ELSE (IF MapHas(b, a[i].k)
          THEN lib_find_array_diffs_in_values(format_key(key_in, a[i].k), a[i].v,
                                              MapGet(b, a[i].k), ctx)
          ELSE <<>>)
         \o lib_find_array_diffs_from(key_in, a, b, ctx, i + 1)

lib_find_array_diffs(key_in, a, b, ctx) ==
    IF ctx.config.array_same_order THEN <<>>
    ELSE lib_find_array_diffs_from(key_in, a, b, ctx, 1)

\* ------------------------------------------------------------------------
\* Explored documents
\* ------------------------------------------------------------------------
FILE_NAME_A == "a.json"
FILE_NAME_B == "b.json"

KA == <<"a">>
KB == <<"b">>

\* marks a key that an object does not have
Absent == [kind |-> "absent", sc |-> <<>>, items |-> <<>>, fields |-> <<>>]

\* the entries of an object with value va under "a" and vb under "b"
Fields(va, vb) ==
    (IF va = Absent THEN <<>> ELSE <<[k |-> KA, v |-> va]>>)
    \o (IF vb = Absent THEN <<>> ELSE <<[k |-> KB, v |-> vb]>>)

\* all sequences over S of length at most n
SeqsUpTo(S, n) == UNION {[1..m -> S] : m \in 0..n}

Scalars == {Null, Bool(TrueText), Num(1), Num(2), Str(<<"1">>)}
ArrayScalars == {Num(1), Num(2), Str(<<"1">>)}

LeafObjects == {Obj(Fields(x, y)) : x \in {Absent, Num(1), Str(<<"1">>)}, y \in {Absent, Num(1)}}
Composites == {Obj(Fields(Num(1), Absent)), Obj(Fields(Absent, Num(1))), Arr(<<Num(1)>>),
               Arr(<<Num(2)>>)}
CompositeArrays == {Arr(s) : s \in SeqsUpTo(Composites, MaxItems)}
ShortArrays == {Arr(s) : s \in SeqsUpTo(ArrayScalars, 2)}
Wrappers ==
    {Obj(Fields(x, Absent)) : x \in {Arr(<<Num(1), Num(2)>>), Arr(<<Num(2), Num(1)>>),
                                     Arr(<<Num(1), Num(1)>>), Obj(Fields(Num(1), Absent)),
                                     Obj(Fields(Absent, Num(1)))}}

TreeValues == Scalars \cup LeafObjects \cup CompositeArrays \cup ShortArrays \cup Wrappers

\* root objects with at most the key "a"
TreeDocs == {Fields(x, Absent) : x \in TreeValues \cup {Absent}}

\* root objects holding one array of scalars, directly or one object deeper
ArrayDoc(s, nested) ==
    IF nested THEN Fields(Obj(Fields(Arr(s), Absent)), Absent) ELSE Fields(Arr(s), Absent)

\* ------------------------------------------------------------------------
\* State
\* ------------------------------------------------------------------------
VARIABLES
    a,                \* root object of document A (its entries)
    b,                \* root object of document B
    working_context,  \* the run's WorkingContext
    lang,             \* the implementation the caller uses: "json", "yaml" or "lib"
    key_checker,      \* the four CheckingData: [state, diffs]
    type_checker,
    value_checker,
    array_checker

vars == <<a, b, working_context, lang, key_checker, type_checker, value_checker,
          array_checker>>

inputs == <<a, b, working_context, lang>>

\* CheckingData::new: an empty diff collection
NewCheckingData == [state |-> "new", diffs |-> <<>>]

\* a CheckingData after check() returned on it
Checked(cd, diffs) == [state |-> "done", diffs |-> cd.diffs \o diffs]

\* a CheckingData after a YAML check() on it returned or aborted
YamlChecked(cd, r) ==
    [state |-> IF r.panicked THEN "panicked" ELSE "done", diffs |-> cd.diffs \o r.diffs]

InitCheckers ==
    /\ key_checker = NewCheckingData
    /\ type_checker = NewCheckingData
    /\ value_checker = NewCheckingData
    /\ array_checker = NewCheckingData

Init ==
    /\ a \in TreeDocs
    /\ b \in TreeDocs
    /\ working_context \in {WorkingContext(FILE_NAME_A, FILE_NAME_B, o) : o \in BOOLEAN}
    /\ lang \in {"json", "yaml", "lib"}
    /\ InitCheckers

InitArr ==
    /\ \E nested \in BOOLEAN :
          /\ a \in {ArrayDoc(s, nested) : s \in SeqsUpTo(ArrayScalars, MaxLen)}
          /\ b \in {ArrayDoc(s, nested) : s \in SeqsUpTo(ArrayScalars, MaxLen)}
    /\ working_context \in {WorkingContext(FILE_NAME_A, FILE_NAME_B, o) : o \in BOOLEAN}
    /\ lang \in {"json", "yaml", "lib"}
    /\ InitCheckers

\* ------------------------------------------------------------------------
\* Operations: one call of check() (or of a crate-root function) per checker
\* ------------------------------------------------------------------------
JsonKeyCheck ==
    /\ lang = "json" /\ key_checker.state = "new"
    /\ key_checker' = Checked(key_checker, json_key_check(<<>>, a, b, working_context))
    /\ UNCHANGED <<inputs, type_checker, value_checker, array_checker>>

\* the type checker pushing its records into the value checker's list as well
JsonTypeCheck_shared ==
    /\ lang = "json" /\ type_checker.state = "new"
    /\ type_checker' = Checked(type_checker, json_type_check(<<>>, a, b, working_context))
    /\ value_checker' = [value_checker EXCEPT
                            !.diffs = @ \o json_type_check(<<>>, a, b, working_context)]
    /\ UNCHANGED <<inputs, key_checker, array_checker>>

JsonTypeCheck ==
    /\ lang = "json" /\ type_checker.state = "new"
    /\ type_checker' = Checked(type_checker, json_type_check(<<>>, a, b, working_context))
    /\ UNCHANGED <<inputs, key_checker, value_checker, array_checker>>

JsonValueCheck ==
    /\ lang = "json" /\ value_checker.state = "new"
    /\ value_checker' = Checked(value_checker, json_value_check(<<>>, a, b, working_context))
    /\ UNCHANGED <<inputs, key_checker, type_checker, array_checker>>

JsonArrayCheck ==
    /\ lang = "json" /\ array_checker.state = "new"
    /\ array_checker' = Checked(array_checker, json_array_check(<<>>, a, b, working_context))
    /\ UNCHANGED <<inputs, key_checker, type_checker, value_checker>>

YamlKeyCheck ==
    /\ lang = "yaml" /\ key_checker.state = "new"
    /\ key_checker' = YamlChecked(key_checker, yaml_key_check(<<>>, a, b, working_context))
    /\ UNCHANGED <<inputs, type_checker, value_checker, array_checker>>

YamlTypeCheck ==
    /\ lang = "yaml" /\ type_checker.state = "new"
    /\ type_checker' = Checked(type_checker, yaml_type_check(<<>>, a, b, working_context))
    /\ UNCHANGED <<inputs, key_checker, value_checker, array_checker>>

YamlValueCheck ==
    /\ lang = "yaml" /\ value_checker.state = "new"
    /\ value_checker' = Checked(value_checker, yaml_value_check(<<>>, a, b, working_context))
    /\ UNCHANGED <<inputs, key_checker, type_checker, array_checker>>

YamlArrayCheck ==
    /\ lang = "yaml" /\ array_checker.state = "new"
    /\ array_checker' = Checked(array_checker, yaml_array_check(<<>>, a, b, working_context))
    /\ UNCHANGED <<inputs, key_checker, type_checker, value_checker>>

LibFindKeyDiffs ==
    /\ lang = "lib" /\ key_checker.state = "new"
    /\ key_checker' = Checked(key_checker, lib_find_key_diffs(<<>>, a, b, working_context))
    /\ UNCHANGED <<inputs, type_checker, value_checker, array_checker>>

LibFindTypeDiffs ==
    /\ lang = "lib" /\ type_checker.state = "new"
    /\ type_checker' = Checked(type_checker, lib_find_type_diffs(<<>>, a, b, working_context))
    /\ UNCHANGED <<inputs, key_checker, value_checker, array_checker>>

LibFindValueDiffs ==
    /\ lang = "lib" /\ value_checker.state = "new"
    /\ value_checker' = Checked(value_checker, lib_find_value_diffs(<<>>, a, b, working_context))
    /\ UNCHANGED <<inputs, key_checker, type_checker, array_checker>>

LibFindArrayDiffs ==
    /\ lang = "lib" /\ array_checker.state = "new"
    /\ array_checker' = Checked(array_checker, lib_find_array_diffs(<<>>, a, b, working_context))
    /\ UNCHANGED <<inputs, key_checker, type_checker, value_checker>>

Next ==
    \/ JsonKeyCheck \/ JsonTypeCheck \/ JsonValueCheck \/ JsonArrayCheck
    \/ YamlKeyCheck \/ YamlTypeCheck \/ YamlValueCheck \/ YamlArrayCheck
    \/ LibFindKeyDiffs \/ LibFindTypeDiffs \/ LibFindValueDiffs \/ LibFindArrayDiffs

NextArr == JsonArrayCheck \/ YamlArrayCheck \/ LibFindArrayDiffs

Spec == Init /\ [][Next]_vars

\* the array checkers alone, on documents holding longer arrays of scalars
SpecArr == InitArr /\ [][NextArr]_vars

\* ------------------------------------------------------------------------
\* Reference walks used by the properties
\* ------------------------------------------------------------------------
Max0(n) == IF n > 0 THEN n ELSE 0

ordered == working_context.config.array_same_order

RECURSIVE ObjectWalk(_, _, _)
\* [path, x, y] for every key shared by the two objects, and by every pair of
\* objects found under a shared key
ObjectWalk(q, oa, ob) ==
    UNION {LET x == oa[i].v
               y == MapGet(ob, oa[i].k)
               path == format_key(q, oa[i].k)
           IN {[path |-> path, x |-> x, y |-> y]}
                \cup (IF is_object(x) /\ is_object(y)
                      THEN ObjectWalk(path, x.fields, y.fields) ELSE {})
           : i \in {j \in 1..Len(oa) : MapHas(ob, oa[j].k)}}

\* the shared paths at which both documents hold arrays
SharedArrays == {w \in ObjectWalk(<<>>, a, b) : is_array(w.x) /\ is_array(w.y)}

\* the array records of the run reported for path p
ArrayRecordsAt(p) == SelectSeq(array_checker.diffs, LAMBDA d : d.key = p)

\* number of array records (p, desc, v)
ArrayCount(p, desc, v) == CountIn(array_checker.diffs, ArrayDiff(p, desc, v))

\* ------------------------------------------------------------------------
\* C1
\* ------------------------------------------------------------------------
\* number of elements of the array value x whose YAML rendering is the text v
YamlOccurrences(x, v) ==
    Cardinality({i \in 1..Len(x.items) : yaml_to_string(x.items[i]) = v})

YamlRendered(x) == {yaml_to_string(x.items[i]) : i \in 1..Len(x.items)}

\* C1: YAML array checker, unordered mode: at every shared path p holding two
\* arrays, every rendered value v occurring ca times in A's array and cb times in
\* B's is reported max(ca-cb,0) times as AHas and as BMisses, max(cb-ca,0) times
\* as BHas and as AMisses, and nothing else is reported for p.
C1_YamlMultisetDifference ==
    (lang = "yaml" /\ ~ordered /\ array_checker.state = "done") =>
        \A w \in SharedArrays :
            LET recs == ArrayRecordsAt(w.path)
                vals == YamlRendered(w.x) \cup YamlRendered(w.y)
                            \cup {recs[i].value : i \in 1..Len(recs)}
            IN /\ \A v \in vals :
                    LET ca == YamlOccurrences(w.x, v)
                        cb == YamlOccurrences(w.y, v)
                    IN /\ ArrayCount(w.path, "AHas", v) = Max0(ca - cb)
                       /\ ArrayCount(w.path, "BMisses", v) = Max0(ca - cb)
                       /\ ArrayCount(w.path, "BHas", v) = Max0(cb - ca)
                       /\ ArrayCount(w.path, "AMisses", v) = Max0(cb - ca)
               /\ \A i \in 1..Len(recs) :
                    recs[i].descriptor \in {"AHas", "AMisses", "BHas", "BMisses"}

\* a value occurring three times in A and once in B was reported twice
C1_Witness ==
    /\ lang = "yaml" /\ ~ordered /\ array_checker.state = "done"
    /\ \E w \in SharedArrays :
          /\ YamlOccurrences(w.x, <<"1">>) = 3
          /\ YamlOccurrences(w.y, <<"1">>) = 1
          /\ ArrayCount(w.path, "AHas", <<"1">>) = 2

\* ------------------------------------------------------------------------
\* C2
\* ------------------------------------------------------------------------
\* the distinct element values of the two arrays that render as the text t
JsonValuesRendering(x, y, t) ==
    {e \in Range(x.items) \cup Range(y.items) : json_render(e) = t}

RECURSIVE SumOver(_, _, _, _)
\* the sum over the values e of S of max(count in x - count in y, 0)
SumOver(S, x, y, sofar) ==
    IF S = {} THEN sofar
    ELSE LET e == CHOOSE e \in S : TRUE
         IN SumOver(S \ {e}, x, y,
                    sofar + Max0(CountIn(x.items, e) - CountIn(y.items, e)))

\* C2: JSON array checker, unordered mode: a value occurring ca times in A's
\* array and cb times in B's array is reported max(ca-cb,0) times as
\* AHas/BMisses and max(cb-ca,0) times as BHas/AMisses.
C2_JsonMultisetDifference ==
    (lang \in {"json", "lib"} /\ ~ordered /\ array_checker.state = "done") =>
        \A w \in SharedArrays :
            \A t \in {json_render(e) : e \in Range(w.x.items) \cup Range(w.y.items)} :
                LET S == JsonValuesRendering(w.x, w.y, t)
                IN /\ ArrayCount(w.path, "AHas", t) = SumOver(S, w.x, w.y, 0)
                   /\ ArrayCount(w.path, "BMisses", t) = SumOver(S, w.x, w.y, 0)
                   /\ ArrayCount(w.path, "BHas", t) = SumOver(S, w.y, w.x, 0)
                   /\ ArrayCount(w.path, "AMisses", t) = SumOver(S, w.y, w.x, 0)

\* ------------------------------------------------------------------------
\* C8
\* ------------------------------------------------------------------------
\* C8: in the array checker's output, for every path and value, there are as
\* many AHas records as BMisses records and as many BHas as AMisses records.
C8_ArrayConservation ==
    \A i \in 1..Len(array_checker.diffs) :
        LET d == array_checker.diffs[i]
        IN /\ ArrayCount(d.key, "AHas", d.value) = ArrayCount(d.key, "BMisses", d.value)
           /\ ArrayCount(d.key, "BHas", d.value) = ArrayCount(d.key, "AMisses", d.value)

\* a run that reported values extra on both sides
C8_Witness ==
    /\ array_checker.state = "done"
    /\ \E i, j \in 1..Len(array_checker.diffs) :
          /\ array_checker.diffs[i].descriptor = "AHas"
          /\ array_checker.diffs[j].descriptor = "BHas"
          /\ array_checker.diffs[i].key = array_checker.diffs[j].key

\* ------------------------------------------------------------------------
\* The pairs of values a key, type or value checker is handed
\* ------------------------------------------------------------------------
RECURSIVE Visit(_, _, _)
RECURSIVE FieldsWalk(_, _, _)

\* the pair at path p and every pair below it: the fields shared by two
\* objects, and in ordered mode the elements of two arrays of equal length
Visit(p, x, y) ==
    {[path |-> p, x |-> x, y |-> y]}
        \cup (IF is_object(x) /\ is_object(y) THEN FieldsWalk(p, x.fields, y.fields) ELSE {})
        \cup (IF ordered /\ is_array(x) /\ is_array(y) /\ Len(x.items) = Len(y.items)
              THEN UNION {Visit(index_key(p, i - 1), x.items[i], y.items[i])
                            : i \in 1..Len(x.items)}
              ELSE {})

FieldsWalk(q, oa, ob) ==
    UNION {Visit(format_key(q, oa[i].k), oa[i].v, MapGet(ob, oa[i].k))
            : i \in {j \in 1..Len(oa) : MapHas(ob, oa[j].k)}}

Visited == FieldsWalk(<<>>, a, b)

\* the pairs of objects compared: the roots and every visited pair of objects
ComparedObjects ==
    {[q |-> <<>>, oa |-> a, ob |-> b]}
        \cup {[q |-> w.path, oa |-> w.x.fields, ob |-> w.y.fields]
                : w \in {v \in Visited : is_object(v.x) /\ is_object(v.y)}}

\* a visited pair that the value checker compares as a whole
IsLeafPair(w) ==
    /\ ~(is_object(w.x) /\ is_object(w.y))
    /\ ~(ordered /\ is_array(w.x) /\ is_array(w.y) /\ Len(w.x.items) = Len(w.y.items))

KeyRecordsAt(p) == SelectSeq(key_checker.diffs, LAMBDA d : d.key = p)
ValueRecordsAt(p) == SelectSeq(value_checker.diffs, LAMBDA d : d.key = p)

\* ------------------------------------------------------------------------
\* C3
\* ------------------------------------------------------------------------
\* C3: JSON key checker: at every compared pair of objects with path prefix q,
\* a key k only in A's object yields exactly one KeyDiff(format_key(q,k),
\* file_a, file_b), a key only in B's object exactly one KeyDiff(format_key(q,k),
\* file_b, file_a), and a key of both objects yields no KeyDiff.
C3_KeyDiffsPerLevel ==
    (lang \in {"json", "lib"} /\ key_checker.state = "done") =>
        \A c \in ComparedObjects :
            \A k \in MapKeys(c.oa) \cup MapKeys(c.ob) :
                LET p == format_key(c.q, k)
                    fa == working_context.file_a.name
                    fb == working_context.file_b.name
                IN KeyRecordsAt(p) =
                      IF ~MapHas(c.ob, k) THEN <<KeyDiff(p, fa, fb)>>
                      ELSE IF ~MapHas(c.oa, k) THEN <<KeyDiff(p, fb, fa)>>
                      ELSE <<>>

\* below the root, one key only in A's object and one only in B's were reported
C3_Witness ==
    /\ lang = "json" /\ key_checker.state = "done"
    /\ \E c \in ComparedObjects :
          /\ c.q # <<>>
          /\ \E k \in MapKeys(c.oa) : ~MapHas(c.ob, k)
          /\ \E k \in MapKeys(c.ob) :
                /\ ~MapHas(c.oa, k)
                /\ KeyRecordsAt(format_key(c.q, k)) # <<>>

\* ------------------------------------------------------------------------
\* C4
\* ------------------------------------------------------------------------
KindNames == {"null", "bool", "number", "string", "array", "object"}

\* C4: type checker: the emitted TypeDiff records are exactly (p, kind of A's
\* value, kind of B's value) for the visited shared paths p whose two values
\* differ in kind, each once, with kind names among the six.
C4_TypeDiffsExact ==
    (type_checker.state = "done") =>
        LET expected == {TypeDiff(w.path, w.x.kind, w.y.kind)
                            : w \in {v \in Visited : v.x.kind # v.y.kind}}
        IN /\ Range(type_checker.diffs) = expected
           /\ Len(type_checker.diffs) = Cardinality(expected)
           /\ \A i \in 1..Len(type_checker.diffs) :
                /\ type_checker.diffs[i].type1 \in KindNames
                /\ type_checker.diffs[i].type2 \in KindNames

\* ordered mode: a kind mismatch between two elements was reported under p[i]
C4_Witness ==
    /\ ordered /\ type_checker.state = "done" /\ lang = "json"
    /\ \E i \in 1..Len(type_checker.diffs) : "[" \in Range(type_checker.diffs[i].key)

\* ------------------------------------------------------------------------
\* C5
\* ------------------------------------------------------------------------
\* C5: JSON value checker: a visited shared path whose two values are compared
\* as wholes has exactly one ValueDiff when the values are unequal and none
\* when they are equal, also when the two values differ in kind.
C5_ValueDiffPerLeaf ==
    (lang \in {"json", "lib"} /\ value_checker.state = "done") =>
        \A w \in Visited :
            IsLeafPair(w) =>
                Len(ValueRecordsAt(w.path)) = (IF w.x # w.y THEN 1 ELSE 0)

\* an array against a scalar was reported as one ValueDiff
C5_Witness ==
    /\ lang = "json" /\ value_checker.state = "done"
    /\ \E w \in Visited :
          /\ is_array(w.x) /\ w.y.kind = "number"
          /\ Len(ValueRecordsAt(w.path)) = 1

\* ------------------------------------------------------------------------
\* C6
\* ------------------------------------------------------------------------
Checkers == <<key_checker, type_checker, value_checker, array_checker>>

\* C6: comparing a document with itself, every checker completes and its diff
\* list is empty, for the JSON and for the YAML checkers, in both modes.
C6_Idempotence ==
    (a = b) =>
        \A i \in 1..4 : Checkers[i].state # "panicked" /\ Checkers[i].diffs = <<>>

\* ------------------------------------------------------------------------
\* C7
\* ------------------------------------------------------------------------
\* the key diffs of a run of the same implementation on (x, y) under ctx
KeyRun(x, y, ctx) ==
    IF lang = "json" THEN json_key_check(<<>>, x, y, ctx)
    ELSE lib_find_key_diffs(<<>>, x, y, ctx)

\* C7: JSON key checker: the set of KeyDiff records of a run on (A, B) with
\* labels (fa, fb) is the set of records of the run on (B, A) with labels
\* (fb, fa).
C7_KeySymmetry ==
    (lang \in {"json", "lib"} /\ key_checker.state = "done") =>
        Range(key_checker.diffs)
            = Range(KeyRun(b, a, WorkingContext(working_context.file_b.name,
                                                working_context.file_a.name, ordered)))

\* a run that reported keys missing on each side
C7_Witness ==
    /\ lang = "json" /\ key_checker.state = "done"
    /\ \E i, j \in 1..Len(key_checker.diffs) :
          /\ key_checker.diffs[i].has = FILE_NAME_A
          /\ key_checker.diffs[j].has = FILE_NAME_B

\* ------------------------------------------------------------------------
\* C9
\* ------------------------------------------------------------------------
\* C9: in ordered mode the array checker returns an empty list.
C9_OrderedModeNoArrayDiffs ==
    (ordered /\ array_checker.state = "done") => array_checker.diffs = <<>>

\* ordered mode, checked, on documents whose shared arrays differ in content
C9_Witness ==
    /\ ordered /\ array_checker.state = "done" /\ lang = "json"
    /\ \E w \in SharedArrays : NotContained(w.x.items, w.y.items) # <<>>

\* ------------------------------------------------------------------------
\* C10
\* ------------------------------------------------------------------------
RECURSIVE MaskArrays(_)
\* the value with the content of every array removed
MaskArrays(v) ==
    IF is_array(v) THEN Arr(<<>>)
    ELSE IF is_object(v)
    THEN Obj([i \in 1..Len(v.fields) |->
                [k |-> v.fields[i].k, v |-> MaskArrays(v.fields[i].v)]])
    ELSE v

HasIndexSegment(diffs) == \E i \in 1..Len(diffs) : "[" \in Range(diffs[i].key)

\* C10: in unordered mode no key, type or value record has a path with an [i]
\* segment, and documents that differ only inside arrays yield no KeyDiff and
\* no TypeDiff.
C10_UnorderedNoArrayDescent ==
    ~ordered =>
        /\ ~HasIndexSegment(key_checker.diffs)
        /\ ~HasIndexSegment(type_checker.diffs)
        /\ ~HasIndexSegment(value_checker.diffs)
        /\ (MaskArrays(Obj(a)) = MaskArrays(Obj(b))) =>
                key_checker.diffs = <<>> /\ type_checker.diffs = <<>>

\* unordered mode, key, type and value checked, on documents whose only
\* difference is between objects held by two arrays
C10_Witness ==
    /\ ~ordered /\ lang = "json"
    /\ key_checker.state = "done" /\ type_checker.state = "done"
    /\ value_checker.state = "done"
    /\ MaskArrays(Obj(a)) = MaskArrays(Obj(b))
    /\ \E w \in SharedArrays :
          /\ Len(w.x.items) = Len(w.y.items)
          /\ \E i \in 1..Len(w.x.items) :
                /\ is_object(w.x.items[i]) /\ is_object(w.y.items[i])
                /\ w.x.items[i] # w.y.items[i]

\* ------------------------------------------------------------------------
\* The value and array checkers on documents holding longer arrays of scalars
\* ------------------------------------------------------------------------
NextOrd ==
    \/ JsonValueCheck \/ YamlValueCheck \/ LibFindValueDiffs
    \/ JsonArrayCheck \/ YamlArrayCheck \/ LibFindArrayDiffs

SpecOrd == InitArr /\ [][NextOrd]_vars

\* ------------------------------------------------------------------------
\* C11
\* ------------------------------------------------------------------------
\* C11: value checker, ordered mode: two arrays of scalars of equal length at a
\* shared path p yield no ValueDiff with key p, and for every position i
\* exactly one ValueDiff (p[i], text of A's element, text of B's element) when
\* the two elements are unequal and none when they are equal; the array
\* checker's list is empty.
C11_OrderedPositionwise ==
    (ordered /\ value_checker.state = "done") =>
        /\ \A w \in SharedArrays :
              Len(w.x.items) = Len(w.y.items) =>
                /\ ValueRecordsAt(w.path) = <<>>
                /\ \A i \in 1..Len(w.x.items) :
                      LET pi == w.path \o <<"[">> \o Dec(i - 1) \o <<"]">>
                      IN ValueRecordsAt(pi) =
                            IF w.x.items[i] # w.y.items[i]
                            THEN <<ValueDiff(pi, w.x.items[i].sc, w.y.items[i].sc)>>
                            ELSE <<>>
        /\ array_checker.diffs = <<>>

\* ordered mode: [1,2,1] against [1,1,1] reported index 1 alone, as 2 and 1
C11_Witness ==
    /\ ordered /\ lang = "json"
    /\ value_checker.state = "done" /\ array_checker.state = "done"
    /\ \E w \in SharedArrays :
          /\ w.x.items = <<Num(1), Num(2), Num(1)>>
          /\ w.y.items = <<Num(1), Num(1), Num(1)>>
          /\ value_checker.diffs
                = <<ValueDiff(w.path \o <<"[", "1", "]">>, <<"2">>, <<"1">>)>>

\* ------------------------------------------------------------------------
\* Documents with two root keys and values of every kind
\* ------------------------------------------------------------------------
MixValues ==
    {Null, Bool(TrueText), Num(1), Str(<<"1">>), Arr(<<Num(1)>>), Arr(<<Num(2)>>),
     Arr(<<Num(1), Num(2)>>), Obj(Fields(Num(1), Absent)), Obj(Fields(Num(2), Absent)),
     Obj(Fields(Absent, Arr(<<Num(1)>>)))}

\* root objects with any value or none under "a" and a few under "b"
MixDocs ==
    {Fields(x, y) : x \in MixValues \cup {Absent}, y \in {Absent, Num(1), Arr(<<Num(1)>>)}}

InitMix ==
    /\ a \in MixDocs
    /\ b \in MixDocs
    /\ working_context \in {WorkingContext(FILE_NAME_A, FILE_NAME_B, o) : o \in BOOLEAN}
    /\ lang \in {"json", "yaml", "lib"}
    /\ InitCheckers

SpecMix == InitMix /\ [][Next]_vars

\* ------------------------------------------------------------------------
\* C12
\* ------------------------------------------------------------------------
\* the text the rendering rule prescribes: a string's raw content, and the
\* compact JSON text of every other value
RenderingRule(v) ==
    CASE v.kind = "string" -> v.sc
      [] v = Null -> <<"n", "u", "l", "l">>
      [] v = Bool(TrueText) -> <<"t", "r", "u", "e">>
      [] v = Num(1) -> <<"1">>
      [] v = Arr(<<Num(1)>>) -> <<"[", "1", "]">>
      [] v = Arr(<<Num(2)>>) -> <<"[", "2", "]">>
      [] v = Arr(<<Num(1), Num(2)>>) -> <<"[", "1", ",", "2", "]">>
      [] v = Obj(Fields(Num(1), Absent)) -> <<"{", "\"", "a", "\"", ":", "1", "}">>
      [] v = Obj(Fields(Num(2), Absent)) -> <<"{", "\"", "a", "\"", ":", "2", "}">>
      [] v = Obj(Fields(Absent, Arr(<<Num(1)>>)))
            -> <<"{", "\"", "b", "\"", ":", "[", "1", "]", "}">>
      [] OTHER -> json_to_string(v)

\* C12: JSON value checker: in every ValueDiff, value1 and value2 are the raw
\* content of the value at the record's path when it is a string, and its
\* compact JSON text otherwise.
C12_RenderingRule ==
    (lang \in {"json", "lib"} /\ value_checker.state = "done") =>
        \A i \in 1..Len(value_checker.diffs) :
            LET d == value_checker.diffs[i]
            IN \E w \in Visited :
                  /\ w.path = d.key
                  /\ d.value1 = RenderingRule(w.x)
                  /\ d.value2 = RenderingRule(w.y)

\* a string against an array was reported as 1 and [1,2]
C12_Witness ==
    /\ lang = "json" /\ value_checker.state = "done"
    /\ \E i \in 1..Len(value_checker.diffs) :
          /\ value_checker.diffs[i].value1 = <<"1">>
          /\ value_checker.diffs[i].value2 = <<"[", "1", ",", "2", "]">>
          /\ \E w \in Visited :
                w.path = value_checker.diffs[i].key /\ is_string(w.x) /\ is_array(w.y)

\* ------------------------------------------------------------------------
\* Documents whose keys are empty, plain or dotted
\* ------------------------------------------------------------------------
KeyTexts == {<<>>, <<"a">>, <<"a", ".", "b">>}

\* a root object with one key k1 holding an object, or an array of one object,
\* whose only key k2 holds a leaf
KeyDoc(k1, k2, leaf, in_array) ==
    LET inner == Obj(<<[k |-> k2, v |-> leaf]>>)
    IN <<[k |-> k1, v |-> IF in_array THEN Arr(<<inner>>) ELSE inner]>>

KeyDocs ==
    {KeyDoc(k1, k2, leaf, in_array) :
        k1 \in KeyTexts, k2 \in KeyTexts, leaf \in {Num(1), Str(<<"1">>)},
        in_array \in BOOLEAN}

InitKeys ==
    /\ a \in KeyDocs
    /\ b \in KeyDocs
    /\ working_context \in {WorkingContext(FILE_NAME_A, FILE_NAME_B, o) : o \in BOOLEAN}
    /\ lang \in {"json", "yaml", "lib"}
    /\ InitCheckers

SpecKeys == InitKeys /\ [][Next]_vars

\* the object a document of KeyDocs holds under its root key
InnerObject(doc) == IF is_array(doc[1].v) THEN doc[1].v.items[1] ELSE doc[1].v

\* the path of that object: the root key, with [0] when it sits in an array
InnerPath(doc) ==
    IF is_array(doc[1].v) THEN doc[1].k \o <<"[", "0", "]">> ELSE doc[1].k

\* both documents hold their inner objects at the same place, and the checkers
\* reach them
InnerCompared ==
    /\ a[1].k = b[1].k
    /\ is_array(a[1].v) = is_array(b[1].v)
    /\ is_array(a[1].v) => ordered

\* ------------------------------------------------------------------------
\* C14
\* ------------------------------------------------------------------------
\* t is local alone under an empty prefix, and otherwise prefix, '.', local
IsFormatted(t, prefix, local) ==
    IF Len(prefix) = 0 THEN t = local
    ELSE /\ Len(t) = Len(prefix) + 1 + Len(local)
         /\ SubSeq(t, 1, Len(prefix)) = prefix
         /\ t[Len(prefix) + 1] = "."
         /\ SubSeq(t, Len(prefix) + 2, Len(t)) = local

\* C14: format_key(prefix, local_key) is local_key under an empty prefix and
\* prefix, '.', local_key otherwise, no character escaped; seen in the key
\* checker's records: a root key reported as itself, and a key of the inner
\* object reported under the root key (followed by [0] for an array element).
C14_FormatKey ==
    (key_checker.state = "done") =>
        IF a[1].k # b[1].k
        THEN /\ Len(key_checker.diffs) = 2
             /\ \A i \in 1..2 :
                    LET d == key_checker.diffs[i]
                    IN IsFormatted(d.key, <<>>, IF d.has = FILE_NAME_A THEN a[1].k ELSE b[1].k)
        ELSE IF InnerCompared /\ InnerObject(a).fields[1].k # InnerObject(b).fields[1].k
        THEN /\ Len(key_checker.diffs) = 2
             /\ \A i \in 1..2 :
                    LET d == key_checker.diffs[i]
                        doc == IF d.has = FILE_NAME_A THEN a ELSE b
                    IN IsFormatted(d.key, InnerPath(doc), InnerObject(doc).fields[1].k)
        ELSE key_checker.diffs = <<>>

\* the dotted key a.b inside the object under a was reported as a.a.b, and the
\* key a inside it as a.a
C14_Witness ==
    /\ lang = "json" /\ key_checker.state = "done"
    /\ {key_checker.diffs[i].key : i \in 1..Len(key_checker.diffs)}
            = {<<"a", ".", "a", ".", "b">>, <<"a", ".", "a">>}

\* ------------------------------------------------------------------------
\* C13
\* ------------------------------------------------------------------------
\* the fully qualified path of the field k of an object: k itself in the root
\* object, and the object's path q, '.', k in any other object
QualifiedKey(q, root, k) == IF root THEN k ELSE q \o <<".">> \o k

RECURSIVE QualifiedVisit(_, _, _)
RECURSIVE QualifiedFields(_, _, _, _)

\* the compared pair at the qualified path p and every compared pair below it
QualifiedVisit(p, x, y) ==
    {[path |-> p, x |-> x, y |-> y]}
        \cup (IF is_object(x) /\ is_object(y)
              THEN QualifiedFields(p, FALSE, x.fields, y.fields) ELSE {})
        \cup (IF ordered /\ is_array(x) /\ is_array(y) /\ Len(x.items) = Len(y.items)
              THEN UNION {QualifiedVisit(p \o <<"[">> \o Dec(i - 1) \o <<"]">>,
                                         x.items[i], y.items[i])
                            : i \in 1..Len(x.items)}
              ELSE {})

QualifiedFields(q, root, oa, ob) ==
    UNION {QualifiedVisit(QualifiedKey(q, root, oa[i].k), oa[i].v, MapGet(ob, oa[i].k))
            : i \in {j \in 1..Len(oa) : MapHas(ob, oa[j].k)}}

QualifiedVisited == QualifiedFields(<<>>, TRUE, a, b)

\* the qualified paths of the fields that one of two compared objects lacks
QualifiedOneSided ==
    {QualifiedKey(<<>>, TRUE, k) : k \in (MapKeys(a) \ MapKeys(b)) \cup (MapKeys(b) \ MapKeys(a))}
        \cup UNION {{QualifiedKey(w.path, FALSE, k) :
                        k \in (MapKeys(w.x.fields) \ MapKeys(w.y.fields))
                                \cup (MapKeys(w.y.fields) \ MapKeys(w.x.fields))}
                    : w \in {v \in QualifiedVisited : is_object(v.x) /\ is_object(v.y)}}

DiffKeys(diffs) == {diffs[i].key : i \in 1..Len(diffs)}

\* C13: every record's key is the fully qualified path of the field it reports,
\* for all key strings, the empty one included: the keys on the way joined by
\* '.', with [i] for every index descended, so that a field k of a non-root
\* object at path q is reported as q, '.', k.
C13_PathInvariant ==
    /\ key_checker.state = "done" => DiffKeys(key_checker.diffs) = QualifiedOneSided
    /\ type_checker.state = "done" =>
            DiffKeys(type_checker.diffs)
                = {w.path : w \in {v \in QualifiedVisited : v.x.kind # v.y.kind}}
    /\ value_checker.state = "done" =>
            DiffKeys(value_checker.diffs) \subseteq {w.path : w \in QualifiedVisited}
    /\ array_checker.state = "done" =>
            DiffKeys(array_checker.diffs) \subseteq {w.path : w \in QualifiedVisited}

\* the same statement for documents whose root key is not empty
C13_NonEmptyKeys == (a[1].k # <<>> /\ b[1].k # <<>>) => C13_PathInvariant

\* ------------------------------------------------------------------------
\* C15
\* ------------------------------------------------------------------------
\* the path t is p or lies below p
IsUnder(t, p) ==
    \/ t = p
    \/ /\ Len(t) > Len(p)
       /\ SubSeq(t, 1, Len(p)) = p
       /\ t[Len(p) + 1] \in {".", "["}

\* the paths of the fields that only one of two compared objects has
OneSidedPaths ==
    UNION {{format_key(c.q, k) :
                k \in (MapKeys(c.oa) \ MapKeys(c.ob)) \cup (MapKeys(c.ob) \ MapKeys(c.oa))}
            : c \in ComparedObjects}

\* C15: a key that only one of two compared objects has yields no TypeDiff, no
\* ValueDiff and no ArrayDiff, neither at its own path nor at a path below it.
C15_SharedKeysOnly ==
    \A p \in OneSidedPaths :
        \A t \in DiffKeys(type_checker.diffs) \cup DiffKeys(value_checker.diffs)
                    \cup DiffKeys(array_checker.diffs) :
            ~IsUnder(t, p)

\* type, value and array checked on documents with no root key in common, one
\* of them holding an object or an array under its key
C15_Witness ==
    /\ lang = "json"
    /\ type_checker.state = "done" /\ value_checker.state = "done"
    /\ array_checker.state = "done"
    /\ MapKeys(a) = {KA} /\ MapKeys(b) = {KB}
    /\ is_object(a[1].v) /\ is_array(b[1].v)
    /\ type_checker.diffs = <<>> /\ value_checker.diffs = <<>> /\ array_checker.diffs = <<>>

\* ------------------------------------------------------------------------
\* C16
\* ------------------------------------------------------------------------
KeyPaths == DiffKeys(key_checker.diffs)
TypePaths == DiffKeys(type_checker.diffs)
ValuePaths == DiffKeys(value_checker.diffs)
ArrayPaths == DiffKeys(array_checker.diffs)

\* C16 as stated: no path occurs in more than one of the four diff lists of a
\* run.
C16_DisjointCategories ==
    /\ KeyPaths \cap (TypePaths \cup ValuePaths \cup ArrayPaths) = {}
    /\ TypePaths \cap (ValuePaths \cup ArrayPaths) = {}
    /\ ValuePaths \cap ArrayPaths = {}

\* C16 as amended: no path occurs in the Key list and in another list, nor in
\* both the Type and the Array list; a path of both the Type and the Value
\* list holds two values of different kinds, and a path of both the Value and
\* the Array list holds two unequal arrays compared in unordered mode.
C16_DisjointAmended ==
    /\ KeyPaths \cap (TypePaths \cup ValuePaths \cup ArrayPaths) = {}
    /\ TypePaths \cap ArrayPaths = {}
    /\ \A p \in TypePaths \cap ValuePaths :
          \E w \in Visited : w.path = p /\ w.x.kind # w.y.kind
    /\ \A p \in ValuePaths \cap ArrayPaths :
          /\ ~ordered
          /\ \E w \in Visited :
                w.path = p /\ is_array(w.x) /\ is_array(w.y) /\ w.x # w.y

\* all four checked: a key of A alone was reported, and the two unequal
\* arrays under the shared key both as a value diff and as array diffs
C16_Witness ==
    /\ lang = "json"
    /\ key_checker.state = "done" /\ type_checker.state = "done"
    /\ value_checker.state = "done" /\ array_checker.state = "done"
    /\ KeyPaths # {}
    /\ ValuePaths \cap ArrayPaths # {}

\* ------------------------------------------------------------------------
\* C17
\* ------------------------------------------------------------------------
\* C17: on well-formed documents and in both modes, none of the four checkers,
\* JSON or YAML, aborts: each runs to completion and returns its list.
C17_NoAbort ==
    /\ key_checker.state # "panicked"
    /\ type_checker.state # "panicked"
    /\ value_checker.state # "panicked"
    /\ array_checker.state # "panicked"

\* ------------------------------------------------------------------------
\* C19
\* ------------------------------------------------------------------------
\* C19: YAML value checker: two sequences at a shared path p that are not
\* compared element by element (unordered mode, or ordered mode and different
\* lengths) yield exactly one ValueDiff (p, 'Array differences present',
\* 'Array differences present') when unequal; equal sequences yield nothing.
C19_YamlArraySentinel ==
    (lang = "yaml" /\ value_checker.state = "done") =>
        \A w \in Visited :
            (is_array(w.x) /\ is_array(w.y)) =>
                /\ ~(ordered /\ Len(w.x.items) = Len(w.y.items)) =>
                        ValueRecordsAt(w.path) =
                            IF w.x # w.y
                            THEN <<ValueDiff(w.path, ArrayDifferencesPresent,
                                             ArrayDifferencesPresent)>>
                            ELSE <<>>
                /\ w.x = w.y => ValueRecordsAt(w.path) = <<>>

\* ordered mode: sequences of different lengths were reported by the fixed text
C19_Witness ==
    /\ lang = "yaml" /\ ordered /\ value_checker.state = "done"
    /\ \E w \in Visited :
          /\ is_array(w.x) /\ is_array(w.y) /\ Len(w.x.items) # Len(w.y.items)
          /\ ValueRecordsAt(w.path)
                = <<ValueDiff(w.path, ArrayDifferencesPresent, ArrayDifferencesPresent)>>

\* ------------------------------------------------------------------------
\* C20
\* ------------------------------------------------------------------------
\* C20: YAML value checker: every shared path whose two values are unequal,
\* not both mappings (and not two sequences compared element by element) has
\* a ValueDiff, also when exactly one of the two values is a sequence.
C20_YamlUnequalReported ==
    (lang = "yaml" /\ value_checker.state = "done") =>
        \A w \in Visited :
            (IsLeafPair(w) /\ w.x # w.y) => ValueRecordsAt(w.path) # <<>>

\* ------------------------------------------------------------------------
\* C18
\* ------------------------------------------------------------------------
\* what each checker holds after running alone on (a, b, working_context)
KeyAlone ==
    CASE lang = "json" ->
            Checked(NewCheckingData, json_key_check(<<>>, a, b, working_context))
      [] lang = "yaml" ->
            YamlChecked(NewCheckingData, yaml_key_check(<<>>, a, b, working_context))
      [] lang = "lib" ->
            Checked(NewCheckingData, lib_find_key_diffs(<<>>, a, b, working_context))

TypeAlone ==
    Checked(NewCheckingData,
            CASE lang = "json" -> json_type_check(<<>>, a, b, working_context)
              [] lang = "yaml" -> yaml_type_check(<<>>, a, b, working_context)
              [] lang = "lib" -> lib_find_type_diffs(<<>>, a, b, working_context))

ValueAlone ==
    Checked(NewCheckingData,
            CASE lang = "json" -> json_value_check(<<>>, a, b, working_context)
              [] lang = "yaml" -> yaml_value_check(<<>>, a, b, working_context)
              [] lang = "lib" -> lib_find_value_diffs(<<>>, a, b, working_context))

ArrayAlone ==
    Checked(NewCheckingData,
            CASE lang = "json" -> json_array_check(<<>>, a, b, working_context)
              [] lang = "yaml" -> yaml_array_check(<<>>, a, b, working_context)
              [] lang = "lib" -> lib_find_array_diffs(<<>>, a, b, working_context))

\* a checker is untouched or holds what it holds after running alone
Independent(cd, alone) == cd = NewCheckingData \/ cd = alone

NestElements ==
    {Obj(Fields(Num(1), Absent)), Obj(Fields(Absent, Num(1))),
     Obj(Fields(Arr(<<Num(1)>>), Absent)), Obj(Fields(Arr(<<Num(2)>>), Absent)),
     Arr(<<Obj(Fields(Num(1), Absent))>>), Arr(<<Obj(Fields(Absent, Num(1)))>>)}

\* arrays of at most two such elements
NestArrays == UNION {[1..m -> NestElements] : m \in {0, 1, 2}}

InitNest ==
    /\ \E nested \in BOOLEAN :
          /\ a \in {ArrayDoc(s, nested) : s \in NestArrays}
          /\ b \in {ArrayDoc(s, nested) : s \in NestArrays}
    /\ working_context \in {WorkingContext(FILE_NAME_A, FILE_NAME_B, o) : o \in BOOLEAN}
    /\ lang \in {"json", "yaml", "lib"}
    /\ InitCheckers

NextNest ==
    \/ JsonKeyCheck \/ JsonValueCheck \/ JsonArrayCheck
    \/ YamlKeyCheck \/ YamlValueCheck \/ YamlArrayCheck
    \/ LibFindKeyDiffs \/ LibFindValueDiffs \/ LibFindArrayDiffs

SpecNest == InitNest /\ [][NextNest]_vars

\* the text t begins with the text pre
StartsWith(t, pre) == Len(t) >= Len(pre) /\ SubSeq(t, 1, Len(pre)) = pre

\* ------------------------------------------------------------------------
\* C21
\* ------------------------------------------------------------------------
\* C21: JSON key checker: a shared pair of arrays at path p yields no KeyDiff
\* for p itself; in ordered mode and with equal lengths, each position i whose
\* two elements are objects has its one-sided keys k reported under p[i].k,
\* once each and with the side that has it (nested arrays likewise, as
\* p[i][j]); otherwise no KeyDiff has a path inside the arrays.
C21_KeyArrayDescent ==
    (lang \in {"json", "lib"} /\ key_checker.state = "done") =>
        \A w \in {v \in Visited : is_array(v.x) /\ is_array(v.y)} :
            /\ KeyRecordsAt(w.path) = <<>>
            /\ IF ordered /\ Len(w.x.items) = Len(w.y.items)
               THEN \A i \in 1..Len(w.x.items) :
                      LET x == w.x.items[i]
                          y == w.y.items[i]
                          pi == w.path \o <<"[">> \o Dec(i - 1) \o <<"]">>
                      IN IF is_object(x) /\ is_object(y)
                         THEN \A k \in MapKeys(x.fields) \cup MapKeys(y.fields) :
                                LET pk == pi \o <<".">> \o k
                                IN KeyRecordsAt(pk) =
                                      IF ~MapHas(y.fields, k)
                                      THEN <<KeyDiff(pk, FILE_NAME_A, FILE_NAME_B)>>
                                      ELSE IF ~MapHas(x.fields, k)
                                      THEN <<KeyDiff(pk, FILE_NAME_B, FILE_NAME_A)>>
                                      ELSE <<>>
                         ELSE IF is_array(x) /\ is_array(y) /\ Len(x.items) = Len(y.items)
                         THEN TRUE
                         ELSE \A d \in Range(key_checker.diffs) : ~StartsWith(d.key, pi)
               ELSE \A d \in Range(key_checker.diffs) :
                      ~StartsWith(d.key, w.path \o <<"[">>)

\* ordered mode: a key difference between the objects held by two arrays that
\* are themselves second elements of two arrays was reported as p[1][0].k
C21_Witness ==
    /\ lang = "json" /\ ordered /\ key_checker.state = "done"
    /\ \E i \in 1..Len(key_checker.diffs) :
          \E w \in SharedArrays :
              StartsWith(key_checker.diffs[i].key,
                         w.path \o <<"[", "1", "]", "[", "0", "]", ".">>)

\* ------------------------------------------------------------------------
\* C22
\* ------------------------------------------------------------------------
\* the JSON text of a scalar: a string between quotes, anything else as it is
ScalarJson(e) == IF e.kind = "string" THEN <<"\"">> \o e.sc \o <<"\"">> ELSE e.sc

RECURSIVE CommaSeparated(_)
CommaSeparated(items) ==
    IF items = <<>> THEN <<>>
    ELSE IF Len(items) = 1 THEN ScalarJson(items[1])
    ELSE ScalarJson(items[1]) \o <<",">> \o CommaSeparated(Tail(items))

\* the serialization of an array of scalars
ArrayJson(x) == <<"[">> \o CommaSeparated(x.items) \o <<"]">>

\* C22: JSON value checker: two arrays at a shared path p, in unordered mode or
\* with different lengths, are compared as wholes: exactly one ValueDiff
\* (p, serialization of A's array, serialization of B's array) when they are
\* unequal as sequences, none when equal, and no record with a key p[i].
C22_WholeArrayFallthrough ==
    (lang \in {"json", "lib"} /\ value_checker.state = "done") =>
        \A w \in SharedArrays :
            (~ordered \/ Len(w.x.items) # Len(w.y.items)) =>
                /\ ValueRecordsAt(w.path) =
                        IF w.x.items # w.y.items
                        THEN <<ValueDiff(w.path, ArrayJson(w.x), ArrayJson(w.y))>>
                        ELSE <<>>
                /\ \A d \in Range(value_checker.diffs) :
                        ~StartsWith(d.key, w.path \o <<"[">>)

\* unordered mode: [1,"1",2] against [1,2,2], equal in length, was reported
\* once, by the two serializations
C22_Witness ==
    /\ lang = "json" /\ ~ordered /\ value_checker.state = "done"
    /\ \E w \in SharedArrays :
          /\ w.x.items = <<Num(1), Str(<<"1">>), Num(2)>>
          /\ w.y.items = <<Num(1), Num(2), Num(2)>>
          /\ value_checker.diffs
                = <<ValueDiff(w.path, <<"[", "1", ",", "\"", "1", "\"", ",", "2", "]">>,
                              <<"[", "1", ",", "2", ",", "2", "]">>)>>

\* ------------------------------------------------------------------------
\* C23
\* ------------------------------------------------------------------------
IsComposite(e) == is_array(e) \/ is_object(e)

\* the positions of x holding an array or an object that no element of y equals
UnmatchedComposites(x, y) ==
    {i \in 1..Len(x.items) :
        IsComposite(x.items[i]) /\ \A j \in 1..Len(y.items) : y.items[j] # x.items[i]}

\* the number of array records with the given descriptor at path p
DescriptorCount(p, desc) ==
    Cardinality({i \in 1..Len(array_checker.diffs) :
                    array_checker.diffs[i].key = p /\ array_checker.diffs[i].descriptor = desc})

\* C23: array checker, unordered mode: an element that is an array or an
\* object matches an element of the other array only when the two are equal
\* as whole values, so each such element of A's array without an equal in B's
\* is reported as AHas and BMisses, and each such element of B's array without
\* an equal in A's as BHas and AMisses; for the JSON and the YAML checker.
C23_CompositeElementIdentity ==
    (~ordered /\ array_checker.state = "done") =>
        \A w \in SharedArrays :
            /\ DescriptorCount(w.path, "AHas") >= Cardinality(UnmatchedComposites(w.x, w.y))
            /\ DescriptorCount(w.path, "BMisses") >= Cardinality(UnmatchedComposites(w.x, w.y))
            /\ DescriptorCount(w.path, "BHas") >= Cardinality(UnmatchedComposites(w.y, w.x))
            /\ DescriptorCount(w.path, "AMisses") >= Cardinality(UnmatchedComposites(w.y, w.x))

\* the same statement for the JSON checker and the crate-root function alone
C23_JsonOnly == lang \in {"json", "lib"} => C23_CompositeElementIdentity

\* ------------------------------------------------------------------------
\* C24
\* ------------------------------------------------------------------------
\* some element of x equals no element of y
HasUnmatched(x, y) ==
    \E i \in 1..Len(x.items) : \A j \in 1..Len(y.items) : y.items[j] # x.items[i]

\* the two arrays differ in how often some rendered value occurs
YamlCountsDiffer(x, y) ==
    \E v \in YamlRendered(x) \cup YamlRendered(y) :
        YamlOccurrences(x, v) # YamlOccurrences(y, v)

\* C24: array checker, unordered mode: records exist only for paths reached
\* through shared keys and pairs of objects (dotted paths, no [i]) at which
\* both documents hold arrays, and there exactly when the top-level elements
\* of the two arrays differ; arrays inside array elements, pairs of different
\* kinds and equal arrays yield nothing.
C24_ArrayRecursionScope ==
    (~ordered /\ array_checker.state = "done") =>
        /\ DiffKeys(array_checker.diffs) \subseteq {w.path : w \in SharedArrays}
        /\ ~HasIndexSegment(array_checker.diffs)
        /\ \A w \in SharedArrays :
              (ArrayRecordsAt(w.path) # <<>>) <=>
                 IF lang = "yaml" THEN YamlCountsDiffer(w.x, w.y)
                 ELSE HasUnmatched(w.x, w.y) \/ HasUnmatched(w.y, w.x)
        /\ \A w \in SharedArrays : w.x = w.y => ArrayRecordsAt(w.path) = <<>>

\* unordered mode: the arrays under the dotted path a.a hold objects whose own
\* arrays differ; the objects were reported as elements of a.a, nothing else
C24_Witness ==
    /\ lang = "json" /\ ~ordered /\ array_checker.state = "done"
    /\ \E w \in SharedArrays :
          /\ w.path = <<"a", ".", "a">>
          /\ w.x.items = <<Obj(Fields(Arr(<<Num(1)>>), Absent))>>
          /\ w.y.items = <<Obj(Fields(Arr(<<Num(2)>>), Absent))>>
          /\ Len(array_checker.diffs) = 4
          /\ DiffKeys(array_checker.diffs) = {w.path}

\* ------------------------------------------------------------------------
\* The recursion of the JSON checkers, loop by loop.  A running checker holds
\* the stack of its active loops: a frame is one run of check() over the
\* entries of an object of A (fn = "check"), or one run of
\* find_*_diffs_in_arrays over the elements of an array of A (fn = "arrays"),
\* with the 1-based position i the loop has reached.  Nested diffs are
\* appended to the caller's list on return, which keeps the order in which
\* they were pushed, so one list holds them here.
\* ------------------------------------------------------------------------
CheckerNames == {"key", "type", "value", "array"}

CallValues ==
    {Num(1), Num(2),
     Obj(Fields(Num(1), Absent)), Obj(Fields(Num(2), Num(1))),
     Arr(<<Num(1)>>), Arr(<<Num(1), Num(2)>>),
     Obj(Fields(Obj(Fields(Num(1), Absent)), Absent)),
     Obj(Fields(Arr(<<Num(2)>>), Num(1))),
     Arr(<<Obj(Fields(Num(1), Absent))>>),
     Arr(<<Arr(<<Num(2)>>), Num(1)>>),
     Obj(Fields(Arr(<<Obj(Fields(Num(1), Absent))>>), Absent)),
     Arr(<<Obj(Fields(Arr(<<Num(2)>>), Absent))>>)}

CallDocs == {Fields(x, Absent) : x \in CallValues} \cup {Fields(Arr(<<Num(1)>>), Num(1))}

\* a CheckingData whose check() has not been called, with no active loop
NewCall == [state |-> "new", diffs |-> <<>>, stack |-> <<>>]

InitCalls ==
    /\ a \in CallDocs
    /\ b \in CallDocs
    /\ working_context \in {WorkingContext(FILE_NAME_A, FILE_NAME_B, o) : o \in BOOLEAN}
    /\ lang = "json"
    /\ key_checker = NewCall
    /\ type_checker = NewCall
    /\ value_checker = NewCall
    /\ array_checker = NewCall

CheckerOf(c) ==
    CASE c = "key" -> key_checker
      [] c = "type" -> type_checker
      [] c = "value" -> value_checker
      [] c = "array" -> array_checker

SetChecker(c, cd) ==
    /\ key_checker' = IF c = "key" THEN cd ELSE key_checker
    /\ type_checker' = IF c = "type" THEN cd ELSE type_checker
    /\ value_checker' = IF c = "value" THEN cd ELSE value_checker
    /\ array_checker' = IF c = "array" THEN cd ELSE array_checker

\* no check() is between its call and its return (the checkers share one thread)
Idle == \A c \in CheckerNames : CheckerOf(c).state # "running"

\* a loop over x (of A) against y (of B) under the path key, at its first entry
Frame(fn, key, x, y) == [fn |-> fn, key |-> key, x |-> x, y |-> y, i |-> 1]

loop_length(f) == IF f.fn = "check" THEN Len(f.x.fields) ELSE Len(f.x.items)

\* format_key(self.key, a_key), or format!("{}[{}]", key_in, i)
entry_key(f) ==
    IF f.fn = "check" THEN format_key(f.key, f.x.fields[f.i].k)
    ELSE index_key(f.key, f.i - 1)

\* self.b.get(a_key) is Some; an element of an array always has its partner
entry_present(f) == f.fn = "arrays" \/ MapHas(f.y.fields, f.x.fields[f.i].k)

entry_a(f) == IF f.fn = "check" THEN f.x.fields[f.i].v ELSE f.x.items[f.i]

entry_b(f) ==
    IF f.fn = "check" THEN MapGet(f.y.fields, f.x.fields[f.i].k) ELSE f.y.items[f.i]

\* hands the whole of B's container to the nested check
json_nested_call_whole(c, f, ctx) ==
    LET x == entry_a(f)
        y == entry_b(f)
    IN IF is_object(x) /\ is_object(y) THEN <<Frame("check", entry_key(f), x, f.y)>>
       ELSE IF c # "array" /\ ctx.config.array_same_order /\ is_array(x) /\ is_array(y)
                /\ Len(x.items) = Len(y.items)
       THEN <<Frame("arrays", entry_key(f), x, f.y)>>
       ELSE <<>>

\* the loop that find_<c>_diffs_in_values starts for the entry at f.i, if any:
\* find_*_diffs_in_objects for two objects, find_*_diffs_in_arrays for two
\* arrays of one length in ordered mode (never in the array checker)
json_nested_call(c, f, ctx) ==
    LET x == entry_a(f)
        y == entry_b(f)
    IN IF is_object(x) /\ is_object(y) THEN <<Frame("check", entry_key(f), x, y)>>
       ELSE IF c # "array" /\ ctx.config.array_same_order /\ is_array(x) /\ is_array(y)
                /\ Len(x.items) = Len(y.items)
       THEN <<Frame("arrays", entry_key(f), x, y)>>
       ELSE <<>>

\* the diffs pushed for the entry at f.i when it starts no nested loop
json_entry_diffs(c, f, ctx) ==
    IF ~entry_present(f)
    THEN IF c = "key" THEN <<KeyDiff(entry_key(f), ctx.file_a.name, ctx.file_b.name)>>
         ELSE <<>>
    ELSE CASE c = "key" ->
                json_find_key_diffs_in_values(entry_key(f), entry_a(f), entry_b(f), ctx)
           [] c = "type" ->
                json_find_type_diffs_in_values(entry_key(f), entry_a(f), entry_b(f), ctx)
           [] c = "value" ->
                json_find_value_diffs_in_values(entry_key(f), entry_a(f), entry_b(f), ctx)
           [] c = "array" ->
                json_find_array_diffs_in_values(entry_key(f), entry_a(f), entry_b(f), ctx)

\* the diffs pushed when the loop of f is over: check_b of the key checker
json_return_diffs(c, f, ctx) ==
    IF c = "key" /\ f.fn = "check"
    THEN json_check_b(json_get_b_keys(f.key, f.y.fields)
                        \ {format_key(f.key, f.x.fields[j].k) :
                              j \in {n \in 1..Len(f.x.fields) :
                                        MapHas(f.y.fields, f.x.fields[n].k)}},
                      ctx)
    ELSE <<>>

\* check() is called on a fresh CheckingData of the two root objects
check_call(c) ==
    /\ lang = "json" /\ Idle /\ CheckerOf(c).state = "new"
    /\ SetChecker(c, IF c = "array" /\ working_context.config.array_same_order
                     THEN [state |-> "done", diffs |-> <<>>, stack |-> <<>>]
                     ELSE [state |-> "running", diffs |-> <<>>,
                           stack |-> <<Frame("check", <<>>, Obj(a), Obj(b))>>])
    /\ UNCHANGED inputs

\* the innermost loop handles its next entry, or is over and returns
check_step(c) ==
    /\ CheckerOf(c).state = "running"
    /\ LET cd == CheckerOf(c)
           n == Len(cd.stack)
           f == cd.stack[n]
           ctx == working_context
       IN IF f.i > loop_length(f)
          THEN SetChecker(c, [state |-> IF n = 1 THEN "done" ELSE "running",
                              diffs |-> cd.diffs \o json_return_diffs(c, f, ctx),
                              stack |-> SubSeq(cd.stack, 1, n - 1)])
          ELSE LET calls == IF entry_present(f) THEN json_nested_call(c, f, ctx) ELSE <<>>
               IN SetChecker(c, [state |-> "running",
                                 diffs |-> IF calls = <<>>
                                           THEN cd.diffs \o json_entry_diffs(c, f, ctx)
                                           ELSE cd.diffs,
                                 stack |-> [cd.stack EXCEPT ![n].i = f.i + 1] \o calls])
    /\ UNCHANGED inputs

NextCalls ==
    \/ \E c \in CheckerNames : check_call(c)
    \/ \E c \in CheckerNames : check_step(c)

\* a check() that was called keeps running until it returns
SpecCalls ==
    InitCalls /\ [][NextCalls]_vars /\ \A c \in CheckerNames : WF_vars(check_step(c))

\* ------------------------------------------------------------------------
\* C25
\* ------------------------------------------------------------------------
MaxOf(S) == CHOOSE m \in S : \A n \in S : n <= m
Min(m, n) == IF m <= n THEN m ELSE n

\* the values directly held by a container
Children(v) == {v.fields[i].v : i \in 1..Len(v.fields)} \cup Range(v.items)

\* levels of containers: 0 for a scalar, 1 for a container of scalars or an empty one
RECURSIVE Depth(_)
Depth(v) ==
    IF is_object(v) \/ is_array(v)
    THEN 1 + MaxOf({0} \cup {Depth(w) : w \in Children(v)})
    ELSE 0

\* number of values in v, itself included
RECURSIVE Size(_)
RECURSIVE SizeSum(_)
SizeSum(vs) == IF vs = <<>> THEN 0 ELSE Size(Head(vs)) + SizeSum(Tail(vs))
Size(v) == 1 + SizeSum(v.items) + SizeSum([i \in 1..Len(v.fields) |-> v.fields[i].v])

AloneOf(c) ==
    CASE c = "key" -> KeyAlone
      [] c = "type" -> TypeAlone
      [] c = "value" -> ValueAlone
      [] c = "array" -> ArrayAlone

\* the recursion is never deeper than the shallower document below the loop
DepthBounded ==
    \A c \in CheckerNames :
        LET st == CheckerOf(c).stack
        IN st # <<>> =>
              Len(st) - 1 + Min(Depth(st[Len(st)].x), Depth(st[Len(st)].y))
                 <= Min(Depth(Obj(a)), Depth(Obj(b)))

\* a nested loop runs over a value held directly by the caller's value, on both sides
CallsShrink ==
    \A c \in CheckerNames :
        LET st == CheckerOf(c).stack
            nx == CheckerOf(c).stack'
        IN (Len(nx) > Len(st) /\ st # <<>>) =>
              /\ Len(nx) = Len(st) + 1
              /\ nx[Len(nx)].x \in Children(st[Len(st)].x)
              /\ nx[Len(nx)].y \in Children(st[Len(st)].y)
              /\ Size(nx[Len(nx)].x) < Size(st[Len(st)].x)
              /\ Size(nx[Len(nx)].y) < Size(st[Len(st)].y)

\* C25: each of the four JSON checkers, in both modes: a check() that was
\* called returns (no call stays between its start and its return for ever,
\* and a checker that is no longer running is done); every nested loop it starts runs over strictly smaller
\* sub-values of both documents; its recursion is never deeper than the nesting
\* of the shallower document along the path; and it returns the diffs of the
\* whole comparison.
C25_Termination ==
    /\ [](DepthBounded)
    /\ [][CallsShrink]_vars
    /\ [](\A c \in CheckerNames :
             CheckerOf(c).state = "done" => CheckerOf(c).diffs = AloneOf(c).diffs)
    /\ [][\A c \in CheckerNames :
              CheckerOf(c).state = "running" => CheckerOf(c)'.state \in {"running", "done"}]_vars
    /\ []<>Idle

\* ordered mode, A nested four levels and B three: the value checker is three
\* loops deep (root object, array, object in the array)
C25_Witness ==
    /\ working_context.config.array_same_order
    /\ Depth(Obj(a)) = 4 /\ Depth(Obj(b)) = 3
    /\ value_checker.state = "running"
    /\ Len(value_checker.stack) = 3
    /\ value_checker.stack[3].fn = "check"
    /\ value_checker.stack[2].fn = "arrays"

\* ------------------------------------------------------------------------
\* C26
\* ------------------------------------------------------------------------
\* C26: JSON checkers, both modes: once the key checker and the value checker
\* have run, their two diff lists are both empty exactly when the two root
\* objects are equal.
C26_KeyValueComplete ==
    (lang = "json" /\ key_checker.state = "done" /\ value_checker.state = "done") =>
        ((key_checker.diffs = <<>> /\ value_checker.diffs = <<>>) <=> a = b)

\* ordered mode, arrays of one object each whose keys differ: the value
\* checker finds no shared leaf, the difference is reported by the key checker
C26_Witness ==
    /\ lang = "json" /\ ordered
    /\ key_checker.state = "done" /\ value_checker.state = "done"
    /\ a # b
    /\ value_checker.diffs = <<>>
    /\ key_checker.diffs # <<>>
    /\ HasIndexSegment(key_checker.diffs)

\* ------------------------------------------------------------------------
\* Documents in which two fields can have one formatted path: the field b of
\* the object under a, and a root field named a.b
\* ------------------------------------------------------------------------
CollideLeaves == {Num(1), Num(2), Str(<<"1">>)}

CollideDocs ==
    {<<[k |-> KA, v |-> Obj(<<[k |-> KB, v |-> l1]>>)]>> : l1 \in CollideLeaves}
        \cup {<<[k |-> KA, v |-> Obj(<<[k |-> KB, v |-> l1]>>)], [k |-> k2, v |-> l2]>> :
                 l1 \in CollideLeaves, l2 \in CollideLeaves, k2 \in {<<"a", ".", "b">>, KB}}

InitCollide ==
    /\ a \in CollideDocs
    /\ b \in CollideDocs
    /\ working_context \in {WorkingContext(FILE_NAME_A, FILE_NAME_B, o) : o \in BOOLEAN}
    /\ lang \in {"json", "yaml", "lib"}
    /\ InitCheckers

SpecCollide == InitCollide /\ [][Next]_vars

\* ------------------------------------------------------------------------
\* C27
\* ------------------------------------------------------------------------
TypeRecordsAt(p) == SelectSeq(type_checker.diffs, LAMBDA d : d.key = p)

RECURSIVE PairCount(_, _, _, _)
RECURSIVE FieldsCount(_, _, _, _, _)
RECURSIVE ItemsCount(_, _, _, _, _)

\* how many of the compared pairs at and below (x, y) are reported under path p
PairCount(k, x, y, p) ==
    (IF k = p THEN 1 ELSE 0)
    + (IF is_object(x) /\ is_object(y) THEN FieldsCount(k, x.fields, y.fields, p, 1) ELSE 0)
    + (IF ordered /\ is_array(x) /\ is_array(y) /\ Len(x.items) = Len(y.items)
       THEN ItemsCount(k, x, y, p, 1) ELSE 0)

FieldsCount(q, oa, ob, p, i) ==
    IF i > Len(oa) THEN 0
    ELSE (IF MapHas(ob, oa[i].k)
          THEN PairCount(format_key(q, oa[i].k), oa[i].v, MapGet(ob, oa[i].k), p) ELSE 0)
         + FieldsCount(q, oa, ob, p, i + 1)

ItemsCount(k, x, y, p, i) ==
    IF i > Len(x.items) THEN 0
    ELSE PairCount(index_key(k, i - 1), x.items[i], y.items[i], p)
         + ItemsCount(k, x, y, p, i + 1)

\* C27: JSON checkers, same inputs and mode: every path of a TypeDiff is the
\* path of exactly one ValueDiff.
C27_TypeImpliesValue ==
    (lang = "json" /\ type_checker.state = "done" /\ value_checker.state = "done") =>
        \A p \in TypePaths : Len(ValueRecordsAt(p)) = 1

\* C27 as amended: every path of a TypeDiff is the path of at least one
\* ValueDiff, of at least as many ValueDiffs as TypeDiffs, and of exactly one
\* where a single compared field is reported under that path.
C27_TypeImpliesValueAmended ==
    (lang = "json" /\ type_checker.state = "done" /\ value_checker.state = "done") =>
        \A p \in TypePaths :
            /\ Len(ValueRecordsAt(p)) >= 1
            /\ Len(ValueRecordsAt(p)) >= Len(TypeRecordsAt(p))
            /\ FieldsCount(<<>>, a, b, p, 1) = 1 => Len(ValueRecordsAt(p)) = 1

\* the field b under a and the root field a.b both differ, one of them in
\* kind: one TypeDiff and two ValueDiffs carry the path a.b
C27_Witness ==
    /\ lang = "json" /\ type_checker.state = "done" /\ value_checker.state = "done"
    /\ Len(TypeRecordsAt(<<"a", ".", "b">>)) = 1
    /\ Len(ValueRecordsAt(<<"a", ".", "b">>)) = 2
    /\ FieldsCount(<<>>, a, b, <<"a", ".", "b">>, 1) = 2

\* ------------------------------------------------------------------------
\* C28
\* ------------------------------------------------------------------------
\* C28: array checker, JSON and YAML: for no path p and value string v does the
\* output hold both a record (p, AHas, v) and a record (p, BHas, v).
C28_NeverExtraOnBothSides ==
    array_checker.state = "done" =>
        \A i, j \in 1..Len(array_checker.diffs) :
            ~(/\ array_checker.diffs[i].descriptor = "AHas"
              /\ array_checker.diffs[j].descriptor = "BHas"
              /\ array_checker.diffs[i].key = array_checker.diffs[j].key
              /\ array_checker.diffs[i].value = array_checker.diffs[j].value)

\* the same statement for the YAML checker alone
C28_YamlOnly == lang = "yaml" => C28_NeverExtraOnBothSides

\* ------------------------------------------------------------------------
\* C29
\* ------------------------------------------------------------------------
\* the two arrays hold the same elements the same number of times, in another order
Reordered(x, y) ==
    /\ x # y
    /\ Len(x.items) = Len(y.items)
    /\ \A e \in Range(x.items) \cup Range(y.items) : CountIn(x.items, e) = CountIn(y.items, e)

\* C29: unordered mode: for two arrays at a shared path p that are
\* permutations of each other but differ in order, the array checker emits no
\* record for p and the value checker of the same run emits exactly one
\* ValueDiff for p.
C29_ReorderedArrays ==
    ~ordered =>
        \A w \in {v \in SharedArrays : Reordered(v.x, v.y)} :
            /\ array_checker.state = "done" => ArrayRecordsAt(w.path) = <<>>
            /\ value_checker.state = "done" => Len(ValueRecordsAt(w.path)) = 1

\* unordered mode, both checkers have run on reordered arrays: the array diff
\* list is empty and the value diff list is not
C29_Witness ==
    /\ ~ordered
    /\ array_checker.state = "done" /\ value_checker.state = "done"
    /\ \E w \in SharedArrays : Reordered(w.x, w.y) /\ Len(w.x.items) = 3
    /\ array_checker.diffs = <<>>
    /\ Len(value_checker.diffs) = 1

\* ------------------------------------------------------------------------
\* Repeated calls of check() on one CheckingData
\* ------------------------------------------------------------------------
\* the number of calls of check() followed on one CheckingData
MaxCalls == 3

\* CheckingData::new, with the number of calls of check() made on it so far
NewRepeated == [state |-> "new", diffs |-> <<>>, calls |-> 0]

RepeatDocs ==
    {Fields(x, Absent) :
        x \in {Num(1), Num(2), Arr(<<Num(1)>>), Arr(<<Num(1), Num(2)>>),
               Obj(Fields(Num(1), Absent)), Arr(<<Obj(Fields(Num(1), Absent))>>)}}
        \cup {Fields(Arr(<<Num(1)>>), Num(1))}

InitRepeat ==
    /\ a \in RepeatDocs
    /\ b \in RepeatDocs
    /\ working_context \in {WorkingContext(FILE_NAME_A, FILE_NAME_B, o) : o \in BOOLEAN}
    /\ lang \in {"json", "yaml"}
    /\ key_checker = NewRepeated
    /\ type_checker = NewRepeated
    /\ value_checker = NewRepeated
    /\ array_checker = NewRepeated

\* empties the list before collecting
repeated_check_cleared(c) ==
    /\ CheckerOf(c).state \in {"new", "done"}
    /\ CheckerOf(c).calls < MaxCalls
    /\ SetChecker(c, [state |-> AloneOf(c).state,
                      diffs |-> AloneOf(c).diffs,
                      calls |-> CheckerOf(c).calls + 1])
    /\ UNCHANGED inputs

\* one more call of check() or check_and_get() on the CheckingData of checker
\* c: the diffs of comparing self.a with self.b under self.key are pushed
\* onto self.diffs; a call that panicked is followed by no other
repeated_check(c) ==
    /\ CheckerOf(c).state \in {"new", "done"}
    /\ CheckerOf(c).calls < MaxCalls
    /\ SetChecker(c, [state |-> AloneOf(c).state,
                      diffs |-> CheckerOf(c).diffs \o AloneOf(c).diffs,
                      calls |-> CheckerOf(c).calls + 1])
    /\ UNCHANGED inputs

NextRepeat == \E c \in CheckerNames : repeated_check(c)

SpecRepeat == InitRepeat /\ [][NextRepeat]_vars

\* ------------------------------------------------------------------------
\* C30
\* ------------------------------------------------------------------------
RECURSIVE Copies(_, _)
\* k copies of the sequence s, one after the other
Copies(s, k) == IF k = 0 THEN <<>> ELSE Copies(s, k - 1) \o s

====
